---- MODULE Spec2Model ----
(***************************************************************************)
(* Concurrency substrate of the performance test suite: the IPC           *)
(* producer/consumer ping-pong (ipc_bench.cpp), the TCP/UDP client/server  *)
(* phases (net_bench.cpp), the stop-flag worker phases of the CPU, memory  *)
(* and integrated modules, and the SystemMonitor sampling thread.          *)
(* One module of the suite runs at a time (main.cpp runs the modules one   *)
(* after the other); `scenario` says which one a behaviour is about.       *)
(* The single-threaded components follow: getCPUUsagePerCore, the sample   *)
(* reducers and analyzeInterference, the adaptive timed loop of the memory *)
(* benchmark, LatencyStats and PerfCounterSet.                             *)
(***************************************************************************)
EXTENDS Integers, Sequences, FiniteSets, TLC

VARIABLES
    scenario,            \* which component this behaviour exercises
    \* ---- IPCBenchmark::measureThroughput (ipc_bench.cpp) ----
    ipc_pc,              \* position of the parent in measureThroughput
    ipc_fail,            \* failure met inside createSharedMemory ("none" if none)
    prod_pc,             \* position of the producer thread
    cons_pc,             \* position of the forked consumer process
    producer_sem,        \* value of the named semaphore segment.producer_sem
    consumer_sem,        \* value of the named semaphore segment.consumer_sem
    ipc_should_stop,     \* control->should_stop
    bytes_transferred,   \* control->bytes_transferred
    message_size,        \* the message_size argument
    slot,                \* id of the message held by control->data (0: zeroed)
    written,             \* number of memcpy's the producer made into the slot
    reads,               \* ids of the messages the consumer copied out, in order
    ipc_exists,          \* which of the three names exist in the OS namespace
    ipc_created,         \* which names this call created
    ipc_unlinks,         \* unlink calls made on each name since its creation attempt
    ipc_result,          \* bytes_transferred as read at line 179 (-1: not read)
    op_timer,            \* the parts of the consumer's loop body that ran since op_timer.start()
    cons_sample,         \* the parts covered by the latest sample given to stats.addSample
    child_stats,         \* samples in the child's LatencyStats child_stats
    size_stats,          \* samples in the LatencyStats run() passed to measureThroughput
    \* ---- NetworkBenchmark::run (net_bench.cpp) ----
    net_pc,              \* position of the caller in run / run*Benchmark
    net_phase,           \* "tcp" or "udp": the phase run() is in
    srv_pc,              \* position of the server thread of the phase
    cli_pc,              \* position of the client thread of the phase
    net_should_stop,     \* NetworkBenchmark::should_stop
    server_ready,        \* NetworkBenchmark::server_ready
    net_bound,           \* the server socket is bound (UDP) / listening (TCP)
    conn,                \* state of the client's TCP connection
    c2s,                 \* the client's bytes are on the connection
    dgrams,              \* datagrams queued on the UDP server socket
    net_counter,         \* bytes_transferred (TCP) / packets_received (UDP)
    packets_sent,        \* packets_sent (UDP)
    cli_iters,           \* iterations of the client loop in this phase
    net_failure,         \* the resource-acquisition failure a thread met
    terminated,          \* std::terminate was called: the process is gone
    net_results,         \* per phase, the counter as read after the joins
    net_status,          \* status of the BenchmarkResult run() returned
    \* ---- stop-flag worker phases (cpu_bench, mem_bench, integrated_bench) ----
    w_phase,             \* which phase: cpu, mem, net2mem, mem2disk, pipeline
    w_n,                 \* number of threads the phase spawns
    w_main,              \* position of the thread that runs the phase
    w_spawned,           \* threads constructed so far
    w_joined,            \* threads joined so far
    w_pc,                \* position of each worker thread
    w_rounds,            \* loop iterations each worker has completed
    w_should_stop,       \* the phase's should_stop flag
    w_total,             \* the phase's shared atomic counter
    w_result,            \* the counter as loaded for the result (-1: not yet)
    w_cores,             \* CPUAffinity::getNumCores()
    w_pin,               \* per worker, the core it asked for (-1: not yet) and the answer
    w_runs,              \* 1 in the first run() on the benchmark object, 2 in the second
    \* ---- SystemMonitor (system_monitor.cpp) ----
    monitoring_active,   \* SystemMonitor::monitoring_active
    mon_ctl,             \* what the controlling thread is inside of
    mon_thread,          \* position of the sampling thread (monitor_thread)
    mon_spawns,          \* sampling threads constructed so far
    samples,             \* SystemMonitor::samples: the session each was taken in
    baselines,           \* the retained delta baselines that are initialised
    timer_started,       \* the call at which monitoring_timer.start() last ran
    mon_session,         \* sessions begun by startMonitoring
    mon_calls,           \* calls made by the controlling thread
    mon_last_call,       \* the last call that returned, and whether it was a no-op
    mon_fails,           \* snapshots that failed in the current session
    \* ---- SystemMonitor::getCPUUsagePerCore (system_monitor.cpp) ----
    cpu_times_initialized, \* SystemMonitor::cpu_times_initialized
    previous_cpu_times,  \* SystemMonitor::previous_cpu_times (one CpuTimes a core)
    previous_cpu_total,  \* SystemMonitor::previous_cpu_total
    last_io_wait_percent, \* SystemMonitor::last_io_wait_percent
    cpu_read,            \* what readCpuTimes returned to the last call
    cpu_usage,           \* the vector the last call returned
    cpu_calls,           \* calls of getCPUUsagePerCore made so far
    \* ---- SystemMonitor reducers and analyzeInterference ----
    rd_samples,          \* SystemMonitor::samples, as ResourceMetrics records
    rd_cores,            \* CPUAffinity::getNumCores()
    rd_now,              \* the clock, in seconds since monitoring_timer.start()
    rd_avg,              \* getAverageMetrics(): the first result and the latest
    rd_peak,             \* getPeakMetrics(): the first result and the latest
    rd_report,           \* the last InterferenceReport returned
    \* ---- MemoryBenchmark::measureSequentialRead / Write (mem_bench.cpp) ----
    ad_pc,               \* position inside the function
    ad_kind,             \* "read" or "write"
    ad_size,             \* the size argument, in MiB
    ad_iterations,       \* the iterations argument
    actual_iterations,   \* local actual_iterations
    elapsed_nanoseconds, \* local elapsed_nanoseconds, in TimeUnitNs units
    ad_bytes,            \* local bytes_read / bytes_written, in MiB
    ad_runs,             \* the timed runs made: <<iterations run, elapsed>>
    ad_result,           \* the throughput returned (-1: not yet)
    \* ---- LatencyStats (utils.h) ----
    ls_samples,          \* LatencyStats::samples
    ls_last,             \* the last member function called: samples held before, result
    ls_ops,              \* member functions called so far
    \* ---- PerfCounterSet (utils.h) ----
    pf_fds,              \* which of the five fd_* members hold an open handle
    pf_active,           \* PerfCounterSet::active
    opened_counters,     \* PerfCounterSet::opened_counters
    pf_os,               \* per counter, the handles the system holds for the set
    pf_log,              \* the calls made so far, each with what it returned
    \* ---- IPCBenchmark::destroySharedMemory (ipc_bench.cpp) ----
    segment,             \* the SharedMemorySegment record: its three pointers
    ds_mapped,           \* the mapping of the shared memory exists
    ds_handles,          \* the semaphore members whose handle is open
    ds_names,            \* the names of the segment that exist in the system
    ds_calls,            \* per call of destroySharedMemory, the system calls it issued
    ds_stale,            \* a munmap or sem_close was issued on something released
    \* ---- main (main.cpp) ----
    benchmarks,          \* the modules createBenchmarks returned, by kind
    context_mode,        \* config.context_mode
    su_ran,              \* how the run of each module begun so far ended
    su_report,           \* the entries added to the Report: name and status
    su_state,            \* "running", "ended", or "terminated" by std::terminate
    \* ---- IntegratedBenchmark (integrated_bench.cpp) ----
    bf_workflow,         \* which of the three workflows runs
    buffer_mutex,        \* the threads that hold buffer_mutex
    bf_pc,               \* position of each thread that touches memory_buffer
    bf_rounds,           \* loop iterations each thread has begun
    bf_should_stop,      \* the workflow's should_stop
    total_operations,    \* the workflow's total_operations
    bf_offset,           \* the generator's offset
    bf_access,           \* the last access to memory_buffer, and who held the mutex
    \* ---- the callers of SystemMonitor (performance_context.cpp, main.cpp) ----
    oc_path,             \* which orchestration path runs
    oc_pc,               \* the statement of the path the caller is at
    oc_ctl,              \* "idle", or "join" inside stopMonitoring
    oc_active,           \* the monitor's monitoring_active
    oc_thread,           \* position of the monitor's sampling thread
    oc_samples,          \* how many samples the monitor holds
    oc_read,             \* the caller's latest read of the samples
    \* ---- ComparisonEngine (comparison.cpp) ----
    cm_thresholds,       \* warning_threshold and critical_threshold, in percent
    cm_last,             \* the MetricComparison compareMetric returned last
    cm_statuses,         \* the status of every metric compared so far
    cm_health,           \* what getOverallHealth returned, or "none"
    \* ---- SystemMonitor::getAverageMetrics, the active_processes field ----
    ap_samples,          \* the active_processes of the samples, as 32-bit values
    ap_avg,              \* the avg.active_processes returned, or ApNone
    \* ---- MemoryBenchmark::run, the contention phase and its buffer ----
    num_threads,         \* std::thread::hardware_concurrency()
    buffer_size,         \* the size of the buffer that could be allocated
    ct_main,             \* position of run(): "spawn", "sleep", "join", "free", "freed"
    ct_spawned,          \* threads constructed so far
    ct_joined,           \* threads joined so far
    ct_should_stop,      \* the phase's should_stop
    ct_pc,               \* position of each thread
    ct_byte              \* per thread, the buffer offset it wrote last (-1: none)

ipcVars == <<ipc_pc, ipc_fail, prod_pc, cons_pc, producer_sem, consumer_sem,
             ipc_should_stop, bytes_transferred, message_size, slot, written,
             reads, ipc_exists, ipc_created, ipc_unlinks, ipc_result, op_timer,
             cons_sample, child_stats, size_stats>>

netVars == <<net_pc, net_phase, srv_pc, cli_pc, net_should_stop, server_ready,
             net_bound, conn, c2s, dgrams, net_counter, packets_sent,
             cli_iters, net_failure, terminated, net_results, net_status>>

wVars == <<w_phase, w_n, w_main, w_spawned, w_joined, w_pc, w_rounds,
           w_should_stop, w_total, w_result, w_cores, w_pin, w_runs>>

monVars == <<monitoring_active, mon_ctl, mon_thread, mon_spawns, samples,
             baselines, timer_started, mon_session, mon_calls, mon_last_call,
             mon_fails>>

cpuVars == <<cpu_times_initialized, previous_cpu_times, previous_cpu_total,
             last_io_wait_percent, cpu_read, cpu_usage, cpu_calls>>

rdVars == <<rd_samples, rd_cores, rd_now, rd_avg, rd_peak, rd_report>>

adVars == <<ad_pc, ad_kind, ad_size, ad_iterations, actual_iterations,
            elapsed_nanoseconds, ad_bytes, ad_runs, ad_result>>

lsVars == <<ls_samples, ls_last, ls_ops>>

pfVars == <<pf_fds, pf_active, opened_counters, pf_os, pf_log>>

dsVars == <<segment, ds_mapped, ds_handles, ds_names, ds_calls, ds_stale>>

\* the state of the components exercised call by call
suVars == <<benchmarks, context_mode, su_ran, su_report, su_state>>

bfVars == <<bf_workflow, buffer_mutex, bf_pc, bf_rounds, bf_should_stop,
            total_operations, bf_offset, bf_access>>

ocVars == <<oc_path, oc_pc, oc_ctl, oc_active, oc_thread, oc_samples, oc_read>>

cmVars == <<cm_thresholds, cm_last, cm_statuses, cm_health>>

apVars == <<ap_samples, ap_avg>>

ctVars == <<num_threads, buffer_size, ct_main, ct_spawned, ct_joined, ct_should_stop, ct_pc,
            ct_byte>>

lateVars == <<ocVars, cmVars, apVars, ctVars>>

moreVars == <<dsVars, suVars, bfVars, lateVars>>

\* the state of the single-threaded components
fnVars == <<cpuVars, rdVars, adVars, lsVars, pfVars>>

\* everything the IPC benchmark does not touch
notIpc == <<netVars, wVars, monVars, fnVars, moreVars>>

\* everything the network benchmark does not touch
notNet == <<ipcVars, wVars, monVars, fnVars, moreVars>>

\* everything a worker phase does not touch
notW == <<ipcVars, netVars, monVars, fnVars, moreVars>>

\* everything the SystemMonitor's sampling thread does not touch
notMon == <<ipcVars, netVars, wVars, fnVars, moreVars>>

\* the four concurrent components
concVars == <<ipcVars, netVars, wVars, monVars>>

\* everything getCPUUsagePerCore does not touch
notCpu == <<concVars, rdVars, adVars, lsVars, pfVars, moreVars>>

\* everything the reducers do not touch
notRd == <<concVars, cpuVars, adVars, lsVars, pfVars, moreVars>>

\* everything measureSequentialRead/Write do not touch
notAd == <<concVars, cpuVars, rdVars, lsVars, pfVars, moreVars>>

\* everything LatencyStats does not touch
notLs == <<concVars, cpuVars, rdVars, adVars, pfVars, moreVars>>

\* everything PerfCounterSet does not touch
notPf == <<concVars, cpuVars, rdVars, adVars, lsVars, moreVars>>

\* everything destroySharedMemory does not touch
notDs == <<concVars, fnVars, suVars, bfVars, lateVars>>

\* everything main's loop does not touch
notSu == <<concVars, fnVars, dsVars, bfVars, lateVars>>

\* everything the integrated workflows' buffer threads do not touch
notBf == <<concVars, fnVars, dsVars, suVars, lateVars>>

\* everything the callers of SystemMonitor do not touch
notOc == <<concVars, fnVars, dsVars, suVars, bfVars, cmVars, apVars, ctVars>>

\* everything the ComparisonEngine does not touch
notCm == <<concVars, fnVars, dsVars, suVars, bfVars, ocVars, apVars, ctVars>>

\* everything the average of active_processes does not touch
notAp == <<concVars, fnVars, dsVars, suVars, bfVars, ocVars, cmVars, ctVars>>

\* everything the contention phase does not touch
notCt == <<concVars, fnVars, dsVars, suVars, bfVars, ocVars, cmVars, apVars>>

vars == <<scenario, ipcVars, netVars, wVars, monVars, fnVars, moreVars>>

(***************************************************************************)
(* Bounds of the model.                                                    *)
(***************************************************************************)
\* messages the producer may start before the parent's sleep ends
MaxMsgs == 2

\* iterations of a network client's loop that fit into the phase's duration
MaxIters == 2

\* std::thread::hardware_concurrency() is between 1 and MaxThreads
MaxThreads == 2

\* loop iterations of a worker that fit into the phase's duration
MaxRounds == 1

\* calls the controlling thread makes on one SystemMonitor
MaxCalls == 4

\* samples one session collects before it is stopped
MaxSamples == 2

\* snapshots that may fail in one session
MaxFails == 1

(***************************************************************************)
(* IPC: constants and helpers.                                             *)
(***************************************************************************)
MESSAGE_SIZES == {64, 1024, 65536, 1048576}

Names == {"shm", "prod", "cons"}

NoNames == [n \in Names |-> FALSE]

\* shm_unlink / sem_unlink of every name in S: the name leaves the namespace,
\* and the call is counted.
UnlinkAll(S) ==
    /\ ipc_exists' = [n \in Names |-> IF n \in S THEN FALSE ELSE ipc_exists[n]]
    /\ ipc_unlinks' = [n \in Names |-> IF n \in S THEN ipc_unlinks[n] + 1
                                                  ELSE ipc_unlinks[n]]

\* the outcomes of createSharedMemory
CreateOutcomes == {"ok", "shm_open", "ftruncate", "mmap",
                   "sem_prod", "sem_cons", "sem_both"}

IpcInit ==
    /\ ipc_pc = "create"
    /\ ipc_fail = "none"
    /\ prod_pc = "none"
    /\ cons_pc = "none"
    /\ producer_sem = 0
    /\ consumer_sem = 0
    /\ ipc_should_stop = FALSE
    /\ bytes_transferred = 0
    /\ slot = 0
    /\ written = 0
    /\ reads = <<>>
    /\ ipc_exists = NoNames
    /\ ipc_created = NoNames
    /\ ipc_unlinks = [n \in Names |-> 0]
    /\ ipc_result = -1
    /\ op_timer = {}
    /\ cons_sample = {}
    /\ child_stats = 0
    /\ size_stats = 0

\* createSharedMemory up to the point where it returns or starts to clean up:
\* shm_open, ftruncate, mmap, memset, the control block, the two sem_unlink
\* calls on names not created yet, and the two sem_open calls.
IpcCreate ==
    /\ scenario = "ipc"
    /\ ipc_pc = "create"
    /\ \E o \in CreateOutcomes :
        /\ ipc_fail' = IF o = "ok" THEN "none" ELSE o
        /\ LET made == CASE o = "shm_open" -> {}
                         [] o \in {"ftruncate", "mmap"} -> {"shm"}
                         [] o = "sem_prod" -> {"shm", "cons"}
                         [] o = "sem_cons" -> {"shm", "prod"}
                         [] o = "sem_both" -> {"shm"}
                         [] OTHER -> Names
           IN /\ ipc_exists' = [n \in Names |-> n \in made]
              /\ ipc_created' = [n \in Names |-> n \in made]
        /\ IF o = "ok"
           THEN /\ producer_sem' = 1
                /\ consumer_sem' = 0
                /\ ipc_pc' = "fork"
           ELSE /\ UNCHANGED <<producer_sem, consumer_sem>>
                /\ ipc_pc' = "create_failed"
    /\ ipc_should_stop' = FALSE
    /\ bytes_transferred' = 0
    /\ UNCHANGED <<scenario, notIpc, child_stats, size_stats, op_timer, cons_sample, prod_pc, cons_pc, message_size, slot, written,
                   reads, ipc_unlinks, ipc_result>>

\* the failure branches of createSharedMemory: what each releases before it throws
IpcCreateFailed ==
    /\ scenario = "ipc"
    /\ ipc_pc = "create_failed"
    /\ CASE ipc_fail = "shm_open" -> UNCHANGED <<ipc_exists, ipc_unlinks>>
         [] ipc_fail \in {"ftruncate", "mmap"} -> UnlinkAll({"shm"})
         [] OTHER -> UnlinkAll(Names)
    /\ ipc_pc' = "threw"
    /\ UNCHANGED <<scenario, notIpc, child_stats, size_stats, op_timer, cons_sample, ipc_fail, prod_pc, cons_pc, producer_sem, consumer_sem,
                   ipc_should_stop, bytes_transferred, message_size, slot,
                   written, reads, ipc_created, ipc_result>>

\* fork(): the child becomes the consumer, or fork fails and the parent throws
IpcFork ==
    /\ scenario = "ipc"
    /\ ipc_pc = "fork"
    /\ \/ /\ cons_pc' = "loop"
          /\ ipc_pc' = "spawn"
       \/ /\ cons_pc' = cons_pc
          /\ ipc_pc' = "catch"
    /\ UNCHANGED <<scenario, notIpc, child_stats, size_stats, op_timer, cons_sample, ipc_fail, prod_pc, producer_sem, consumer_sem,
                   ipc_should_stop, bytes_transferred, message_size, slot,
                   written, reads, ipc_exists, ipc_created, ipc_unlinks, ipc_result>>

\* std::thread producer_thread(...): the thread starts, or the constructor throws
IpcSpawnProducer ==
    /\ scenario = "ipc"
    /\ ipc_pc = "spawn"
    /\ \/ /\ prod_pc' = "loop"
          /\ ipc_pc' = "sleep"
       \/ /\ prod_pc' = prod_pc
          /\ ipc_pc' = "catch"
    /\ UNCHANGED <<scenario, notIpc, child_stats, size_stats, op_timer, cons_sample, ipc_fail, cons_pc, producer_sem, consumer_sem,
                   ipc_should_stop, bytes_transferred, message_size, slot,
                   written, reads, ipc_exists, ipc_created, ipc_unlinks, ipc_result>>

\* the sleep ends: control->should_stop = true
IpcSetStop ==
    /\ scenario = "ipc"
    /\ ipc_pc = "sleep"
    /\ ipc_should_stop' = TRUE
    /\ ipc_pc' = "post_prod"
    /\ UNCHANGED <<scenario, notIpc, child_stats, size_stats, op_timer, cons_sample, ipc_fail, prod_pc, cons_pc, producer_sem, consumer_sem,
                   bytes_transferred, message_size, slot, written, reads,
                   ipc_exists, ipc_created, ipc_unlinks, ipc_result>>

\* sem_post(segment.producer_sem)
IpcPostProd ==
    /\ scenario = "ipc"
    /\ ipc_pc = "post_prod"
    /\ producer_sem' = producer_sem + 1
    /\ ipc_pc' = "post_cons"
    /\ UNCHANGED <<scenario, notIpc, child_stats, size_stats, op_timer, cons_sample, ipc_fail, prod_pc, cons_pc, consumer_sem,
                   ipc_should_stop, bytes_transferred, message_size, slot,
                   written, reads, ipc_exists, ipc_created, ipc_unlinks, ipc_result>>

\* a parent that forgets the consumer's post
IpcPostConsForgotten ==
    /\ scenario = "ipc"
    /\ ipc_pc = "post_cons"
    /\ ipc_pc' = "join"
    /\ UNCHANGED <<scenario, notIpc, child_stats, size_stats, op_timer, cons_sample, ipc_fail, prod_pc, cons_pc, producer_sem, consumer_sem,
                   ipc_should_stop, bytes_transferred, message_size, slot,
                   written, reads, ipc_exists, ipc_created, ipc_unlinks, ipc_result>>

\* sem_post(segment.consumer_sem)
IpcPostCons ==
    /\ scenario = "ipc"
    /\ ipc_pc = "post_cons"
    /\ consumer_sem' = consumer_sem + 1
    /\ ipc_pc' = "join"
    /\ UNCHANGED <<scenario, notIpc, child_stats, size_stats, op_timer, cons_sample, ipc_fail, prod_pc, cons_pc, producer_sem,
                   ipc_should_stop, bytes_transferred, message_size, slot,
                   written, reads, ipc_exists, ipc_created, ipc_unlinks, ipc_result>>

\* producer_thread.join() returns once the producer has left producer()
IpcJoin ==
    /\ scenario = "ipc"
    /\ ipc_pc = "join"
    /\ prod_pc = "done"
    /\ ipc_pc' = "waitpid"
    /\ UNCHANGED <<scenario, notIpc, child_stats, size_stats, op_timer, cons_sample, ipc_fail, prod_pc, cons_pc, producer_sem, consumer_sem,
                   ipc_should_stop, bytes_transferred, message_size, slot,
                   written, reads, ipc_exists, ipc_created, ipc_unlinks, ipc_result>>

\* waitpid(child_pid) returns once the child has called exit(0)
IpcWaitpid ==
    /\ scenario = "ipc"
    /\ ipc_pc = "waitpid"
    /\ cons_pc = "done"
    /\ ipc_pc' = "read"
    /\ UNCHANGED <<scenario, notIpc, child_stats, size_stats, op_timer, cons_sample, ipc_fail, prod_pc, cons_pc, producer_sem, consumer_sem,
                   ipc_should_stop, bytes_transferred, message_size, slot,
                   written, reads, ipc_exists, ipc_created, ipc_unlinks, ipc_result>>

\* throughput_mbps is computed from control->bytes_transferred
IpcReadCounter ==
    /\ scenario = "ipc"
    /\ ipc_pc = "read"
    /\ ipc_result' = bytes_transferred
    /\ ipc_pc' = "destroy"
    /\ UNCHANGED <<scenario, notIpc, child_stats, size_stats, op_timer, cons_sample, ipc_fail, prod_pc, cons_pc, producer_sem, consumer_sem,
                   ipc_should_stop, bytes_transferred, message_size, slot,
                   written, reads, ipc_exists, ipc_created, ipc_unlinks>>

\* destroySharedMemory(segment) on the normal path, then return
IpcDestroy ==
    /\ scenario = "ipc"
    /\ ipc_pc = "destroy"
    /\ UnlinkAll(Names)
    /\ ipc_pc' = "returned"
    /\ UNCHANGED <<scenario, notIpc, child_stats, size_stats, op_timer, cons_sample, ipc_fail, prod_pc, cons_pc, producer_sem, consumer_sem,
                   ipc_should_stop, bytes_transferred, message_size, slot,
                   written, reads, ipc_created, ipc_result>>

\* a handler that rethrows without releasing the segment
IpcCatchLeaks ==
    /\ scenario = "ipc"
    /\ ipc_pc = "catch"
    /\ ipc_pc' = "threw"
    /\ UNCHANGED <<scenario, notIpc, child_stats, size_stats, op_timer, cons_sample, ipc_fail, prod_pc, cons_pc, producer_sem, consumer_sem,
                   ipc_should_stop, bytes_transferred, message_size, slot,
                   written, reads, ipc_exists, ipc_created, ipc_unlinks, ipc_result>>

\* catch (...) { destroySharedMemory(segment); throw; }
IpcCatch ==
    /\ scenario = "ipc"
    /\ ipc_pc = "catch"
    /\ UnlinkAll(Names)
    /\ ipc_pc' = "threw"
    /\ UNCHANGED <<scenario, notIpc, child_stats, size_stats, op_timer, cons_sample, ipc_fail, prod_pc, cons_pc, producer_sem, consumer_sem,
                   ipc_should_stop, bytes_transferred, message_size, slot,
                   written, reads, ipc_created, ipc_result>>

(***************************************************************************)
(* IPCBenchmark::producer.  sem_post on a valid semaphore whose value      *)
(* stays below 3 does not fail, so its error branch is not taken.          *)
(***************************************************************************)
\* while (!control->should_stop); the sleep of the parent ends before the
\* producer starts message MaxMsgs + 1
ProdLoop ==
    /\ scenario = "ipc"
    /\ prod_pc = "loop"
    /\ ipc_should_stop \/ written < MaxMsgs
    /\ prod_pc' = IF ipc_should_stop THEN "done" ELSE "wait"
    /\ UNCHANGED <<scenario, notIpc, child_stats, size_stats, op_timer, cons_sample, ipc_pc, ipc_fail, cons_pc, producer_sem, consumer_sem,
                   ipc_should_stop, bytes_transferred, message_size, slot,
                   written, reads, ipc_exists, ipc_created, ipc_unlinks, ipc_result>>

\* sem_wait(producer_sem) returns 0: a token was taken
ProdWait ==
    /\ scenario = "ipc"
    /\ prod_pc = "wait"
    /\ producer_sem > 0
    /\ producer_sem' = producer_sem - 1
    /\ prod_pc' = "check"
    /\ UNCHANGED <<scenario, notIpc, child_stats, size_stats, op_timer, cons_sample, ipc_pc, ipc_fail, cons_pc, consumer_sem,
                   ipc_should_stop, bytes_transferred, message_size, slot,
                   written, reads, ipc_exists, ipc_created, ipc_unlinks, ipc_result>>

\* sem_wait(producer_sem) == -1 (interrupted by a signal): continue
ProdWaitInterrupted ==
    /\ scenario = "ipc"
    /\ prod_pc = "wait"
    /\ producer_sem' = producer_sem
    /\ prod_pc' = "loop"
    /\ UNCHANGED <<scenario, notIpc, child_stats, size_stats, op_timer, cons_sample, ipc_pc, ipc_fail, cons_pc, consumer_sem,
                   ipc_should_stop, bytes_transferred, message_size, slot,
                   written, reads, ipc_exists, ipc_created, ipc_unlinks, ipc_result>>

\* a producer that writes whenever its sem_wait returned
ProdCheckIgnoresStop ==
    /\ scenario = "ipc"
    /\ prod_pc = "check"
    /\ prod_pc' = "copy"
    /\ UNCHANGED <<scenario, notIpc, child_stats, size_stats, op_timer, cons_sample, ipc_pc, ipc_fail, cons_pc, producer_sem, consumer_sem,
                   ipc_should_stop, bytes_transferred, message_size, slot,
                   written, reads, ipc_exists, ipc_created, ipc_unlinks, ipc_result>>

\* if (control->should_stop) break;
ProdCheck ==
    /\ scenario = "ipc"
    /\ prod_pc = "check"
    /\ prod_pc' = IF ipc_should_stop THEN "done" ELSE "copy"
    /\ UNCHANGED <<scenario, notIpc, child_stats, size_stats, op_timer, cons_sample, ipc_pc, ipc_fail, cons_pc, producer_sem, consumer_sem,
                   ipc_should_stop, bytes_transferred, message_size, slot,
                   written, reads, ipc_exists, ipc_created, ipc_unlinks, ipc_result>>

\* memcpy(buffer, message.data(), message_size)
ProdCopy ==
    /\ scenario = "ipc"
    /\ prod_pc = "copy"
    /\ written' = written + 1
    /\ slot' = written + 1
    /\ prod_pc' = "post"
    /\ UNCHANGED <<scenario, notIpc, child_stats, size_stats, op_timer, cons_sample, ipc_pc, ipc_fail, cons_pc, producer_sem, consumer_sem,
                   ipc_should_stop, bytes_transferred, message_size, reads,
                   ipc_exists, ipc_created, ipc_unlinks, ipc_result>>

\* sem_post(consumer_sem)
ProdPost ==
    /\ scenario = "ipc"
    /\ prod_pc = "post"
    /\ consumer_sem' = consumer_sem + 1
    /\ prod_pc' = "add"
    /\ UNCHANGED <<scenario, notIpc, child_stats, size_stats, op_timer, cons_sample, ipc_pc, ipc_fail, cons_pc, producer_sem,
                   ipc_should_stop, bytes_transferred, message_size, slot,
                   written, reads, ipc_exists, ipc_created, ipc_unlinks, ipc_result>>

\* __sync_fetch_and_add(&control->bytes_transferred, message_size)
ProdAdd ==
    /\ scenario = "ipc"
    /\ prod_pc = "add"
    /\ bytes_transferred' = bytes_transferred + message_size
    /\ prod_pc' = "loop"
    /\ UNCHANGED <<scenario, notIpc, child_stats, size_stats, op_timer, cons_sample, ipc_pc, ipc_fail, cons_pc, producer_sem, consumer_sem,
                   ipc_should_stop, message_size, slot, written, reads,
                   ipc_exists, ipc_created, ipc_unlinks, ipc_result>>

(***************************************************************************)
(* IPCBenchmark::consumer, run by the forked child, which then exits.      *)
(***************************************************************************)
\* while (!control->should_stop), then exit(0) in measureThroughput; the
\* loop body begins with Timer op_timer; op_timer.start()
ConsLoop ==
    /\ scenario = "ipc"
    /\ cons_pc = "loop"
    /\ cons_pc' = IF ipc_should_stop THEN "done" ELSE "wait"
    /\ op_timer' = {}
    /\ UNCHANGED <<scenario, notIpc, child_stats, size_stats, cons_sample, ipc_pc, ipc_fail, prod_pc, producer_sem, consumer_sem,
                   ipc_should_stop, bytes_transferred, message_size, slot,
                   written, reads, ipc_exists, ipc_created, ipc_unlinks, ipc_result>>

\* sem_wait(consumer_sem) returns 0: a token was taken, after the time the
\* consumer was blocked for it
ConsWait ==
    /\ scenario = "ipc"
    /\ cons_pc = "wait"
    /\ consumer_sem > 0
    /\ consumer_sem' = consumer_sem - 1
    /\ cons_pc' = "check"
    /\ op_timer' = op_timer \cup {"wait"}
    /\ UNCHANGED <<scenario, notIpc, child_stats, size_stats, cons_sample, ipc_pc, ipc_fail, prod_pc, producer_sem,
                   ipc_should_stop, bytes_transferred, message_size, slot,
                   written, reads, ipc_exists, ipc_created, ipc_unlinks, ipc_result>>

\* sem_wait(consumer_sem) == -1 (interrupted by a signal): continue
ConsWaitInterrupted ==
    /\ scenario = "ipc"
    /\ cons_pc = "wait"
    /\ consumer_sem' = consumer_sem
    /\ cons_pc' = "loop"
    /\ op_timer' = op_timer \cup {"wait"}
    /\ UNCHANGED <<scenario, notIpc, child_stats, size_stats, cons_sample, ipc_pc, ipc_fail, prod_pc, producer_sem,
                   ipc_should_stop, bytes_transferred, message_size, slot,
                   written, reads, ipc_exists, ipc_created, ipc_unlinks, ipc_result>>

\* a consumer that copies whenever its sem_wait returned
ConsCheckIgnoresStop ==
    /\ scenario = "ipc"
    /\ cons_pc = "check"
    /\ cons_pc' = "copy"
    /\ UNCHANGED <<scenario, notIpc, child_stats, size_stats, op_timer, cons_sample, ipc_pc, ipc_fail, prod_pc, producer_sem, consumer_sem,
                   ipc_should_stop, bytes_transferred, message_size, slot,
                   written, reads, ipc_exists, ipc_created, ipc_unlinks, ipc_result>>

\* if (control->should_stop) break;
ConsCheck ==
    /\ scenario = "ipc"
    /\ cons_pc = "check"
    /\ cons_pc' = IF ipc_should_stop THEN "done" ELSE "copy"
    /\ UNCHANGED <<scenario, notIpc, child_stats, size_stats, op_timer, cons_sample, ipc_pc, ipc_fail, prod_pc, producer_sem, consumer_sem,
                   ipc_should_stop, bytes_transferred, message_size, slot,
                   written, reads, ipc_exists, ipc_created, ipc_unlinks, ipc_result>>

\* memcpy(received.data(), buffer, message_size)
ConsCopy ==
    /\ scenario = "ipc"
    /\ cons_pc = "copy"
    /\ reads' = Append(reads, slot)
    /\ cons_pc' = "post"
    /\ op_timer' = op_timer \cup {"copy"}
    /\ UNCHANGED <<scenario, notIpc, child_stats, size_stats, cons_sample, ipc_pc, ipc_fail, prod_pc, producer_sem, consumer_sem,
                   ipc_should_stop, bytes_transferred, message_size, slot,
                   written, ipc_exists, ipc_created, ipc_unlinks, ipc_result>>

\* sem_post(producer_sem)
ConsPost ==
    /\ scenario = "ipc"
    /\ cons_pc = "post"
    /\ producer_sem' = producer_sem + 1
    /\ cons_pc' = "sample"
    /\ op_timer' = op_timer \cup {"post"}
    /\ UNCHANGED <<scenario, notIpc, child_stats, size_stats, cons_sample, ipc_pc, ipc_fail, prod_pc, consumer_sem,
                   ipc_should_stop, bytes_transferred, message_size, slot,
                   written, reads, ipc_exists, ipc_created, ipc_unlinks, ipc_result>>

\* stats.addSample(op_timer.elapsedMilliseconds())
ConsSample ==
    /\ scenario = "ipc"
    /\ cons_pc = "sample"
    /\ cons_pc' = "loop"
    /\ cons_sample' = op_timer
    /\ child_stats' = child_stats + 1
    /\ UNCHANGED <<scenario, notIpc, size_stats, op_timer, ipc_pc, ipc_fail, prod_pc, producer_sem, consumer_sem,
                   ipc_should_stop, bytes_transferred, message_size, slot,
                   written, reads, ipc_exists, ipc_created, ipc_unlinks, ipc_result>>

IpcParent ==
    \/ IpcCreate \/ IpcCreateFailed \/ IpcFork \/ IpcSpawnProducer \/ IpcSetStop
    \/ IpcPostProd \/ IpcPostCons \/ IpcJoin \/ IpcWaitpid \/ IpcReadCounter
    \/ IpcDestroy \/ IpcCatch

Producer == ProdLoop \/ ProdWait \/ ProdCheck \/ ProdCopy \/ ProdPost \/ ProdAdd

Consumer == ConsLoop \/ ConsWait \/ ConsCheck \/ ConsCopy \/ ConsPost \/ ConsSample

(***************************************************************************)
(* NetworkBenchmark: run(), runTCPBenchmark, runUDPBenchmark and their     *)
(* server and client threads.  An exception that leaves a thread function  *)
(* calls std::terminate: the process ends and no thread takes a step.      *)
(***************************************************************************)
BUFFER_SIZE == 65536

NetInit ==
    /\ net_pc = "init"
    /\ net_phase = "tcp"
    /\ srv_pc = "none"
    /\ cli_pc = "none"
    /\ net_should_stop = FALSE
    /\ server_ready = FALSE
    /\ net_bound = FALSE
    /\ conn = "none"
    /\ c2s = FALSE
    /\ dgrams = 0
    /\ net_counter = 0
    /\ packets_sent = 0
    /\ cli_iters = 0
    /\ net_failure = "none"
    /\ terminated = FALSE
    /\ net_results = [ph \in {"tcp", "udp"} |-> -1]
    /\ net_status = "none"

NetRunning == scenario = "net" /\ ~terminated

\* an exception leaves the thread function f: std::terminate
ThrowInThread(what) ==
    /\ net_failure' = what
    /\ terminated' = TRUE

\* a phase start that leaves server_ready as the previous phase left it
NetPhaseInitNoReset ==
    /\ NetRunning
    /\ net_pc = "init"
    /\ net_should_stop' = FALSE
    /\ net_counter' = 0
    /\ packets_sent' = 0
    /\ cli_iters' = 0
    /\ net_pc' = "spawn_server"
    /\ UNCHANGED <<scenario, notNet, c2s, net_phase, srv_pc, cli_pc, net_bound, conn,
                   dgrams, net_failure, terminated, net_results, net_status,
                   server_ready>>

\* run*Benchmark: should_stop.store(false); server_ready.store(false); the
\* counters start at 0
NetPhaseInit ==
    /\ NetRunning
    /\ net_pc = "init"
    /\ net_should_stop' = FALSE
    /\ server_ready' = FALSE
    /\ net_counter' = 0
    /\ packets_sent' = 0
    /\ cli_iters' = 0
    /\ net_pc' = "spawn_server"
    /\ UNCHANGED <<scenario, notNet, c2s, net_phase, srv_pc, cli_pc, net_bound, conn,
                   dgrams, net_failure, terminated, net_results, net_status>>

\* std::thread server_thread(...)
NetSpawnServer ==
    /\ NetRunning
    /\ net_pc = "spawn_server"
    /\ srv_pc' = "socket"
    /\ net_pc' = "spawn_client"
    /\ UNCHANGED <<scenario, notNet, c2s, net_phase, cli_pc, net_should_stop,
                   server_ready, net_bound, conn, dgrams, net_counter,
                   packets_sent, cli_iters, net_failure, terminated,
                   net_results, net_status>>

\* std::thread client_thread(...)
NetSpawnClient ==
    /\ NetRunning
    /\ net_pc = "spawn_client"
    /\ cli_pc' = "wait_ready"
    /\ net_pc' = "sleep"
    /\ UNCHANGED <<scenario, notNet, c2s, net_phase, srv_pc, net_should_stop,
                   server_ready, net_bound, conn, dgrams, net_counter,
                   packets_sent, cli_iters, net_failure, terminated,
                   net_results, net_status>>

\* the sleep ends: should_stop.store(true)
NetSetStop ==
    /\ NetRunning
    /\ net_pc = "sleep"
    /\ net_should_stop' = TRUE
    /\ net_pc' = "join_client"
    /\ UNCHANGED <<scenario, notNet, c2s, net_phase, srv_pc, cli_pc, server_ready,
                   net_bound, conn, dgrams, net_counter, packets_sent,
                   cli_iters, net_failure, terminated, net_results, net_status>>

\* client_thread.join()
NetJoinClient ==
    /\ NetRunning
    /\ net_pc = "join_client"
    /\ cli_pc = "done"
    /\ net_pc' = "join_server"
    /\ UNCHANGED <<scenario, notNet, c2s, net_phase, srv_pc, cli_pc, net_should_stop,
                   server_ready, net_bound, conn, dgrams, net_counter,
                   packets_sent, cli_iters, net_failure, terminated,
                   net_results, net_status>>

\* server_thread.join()
NetJoinServer ==
    /\ NetRunning
    /\ net_pc = "join_server"
    /\ srv_pc = "done"
    /\ net_pc' = "compute"
    /\ UNCHANGED <<scenario, notNet, c2s, net_phase, srv_pc, cli_pc, net_should_stop,
                   server_ready, net_bound, conn, dgrams, net_counter,
                   packets_sent, cli_iters, net_failure, terminated,
                   net_results, net_status>>

\* the phase's result is computed from the counter; run() goes on with the
\* UDP phase, or fills in the BenchmarkResult and returns it
NetCompute ==
    /\ NetRunning
    /\ net_pc = "compute"
    /\ net_results' = [net_results EXCEPT ![net_phase] = net_counter]
    /\ IF net_phase = "tcp"
       THEN /\ net_phase' = "udp"
            /\ net_pc' = "init"
            /\ srv_pc' = "none"
            /\ cli_pc' = "none"
            /\ conn' = "none"
            /\ c2s' = FALSE
            /\ net_status' = net_status
       ELSE /\ net_pc' = "returned"
            /\ net_status' = "success"
            /\ UNCHANGED <<net_phase, srv_pc, cli_pc, conn, c2s>>
    /\ UNCHANGED <<scenario, notNet, net_should_stop, server_ready, net_bound,
                   dgrams, net_counter, packets_sent, cli_iters, net_failure,
                   terminated>>

\* a server that reports its failure through the phase instead of throwing
SrvSetupReported ==
    /\ NetRunning
    /\ srv_pc \in {"socket", "bind", "listen"}
    /\ \/ /\ srv_pc' = CASE srv_pc = "socket" -> "bind"
                         [] srv_pc = "bind" -> IF net_phase = "tcp" THEN "listen"
                                                                    ELSE "ready"
                         [] OTHER -> "ready"
          /\ net_bound' = (srv_pc # "socket")
          /\ UNCHANGED <<net_failure, terminated>>
       \/ /\ srv_pc' = "done"
          /\ net_failure' = srv_pc
          /\ UNCHANGED <<net_bound, terminated>>
    /\ UNCHANGED <<scenario, notNet, c2s, net_pc, net_phase, cli_pc, net_should_stop,
                   server_ready, conn, dgrams, net_counter, packets_sent,
                   cli_iters, net_results, net_status>>

\* tcpServer / udpServer before the loop: socket(), bind() and, for TCP,
\* listen(); each either succeeds or throws std::runtime_error
SrvSetup ==
    /\ NetRunning
    /\ srv_pc \in {"socket", "bind", "listen"}
    /\ srv_pc = "listen" => net_phase = "tcp"
    /\ \/ /\ srv_pc' = CASE srv_pc = "socket" -> "bind"
                         [] srv_pc = "bind" -> IF net_phase = "tcp" THEN "listen"
                                                                    ELSE "ready"
                         [] OTHER -> "ready"
          /\ net_bound' = (srv_pc # "socket")
          /\ UNCHANGED <<net_failure, terminated>>
       \/ /\ ThrowInThread(srv_pc)
          /\ UNCHANGED <<srv_pc, net_bound>>
    /\ UNCHANGED <<scenario, notNet, c2s, net_pc, net_phase, cli_pc, net_should_stop,
                   server_ready, conn, dgrams, net_counter, packets_sent,
                   cli_iters, net_results, net_status>>

\* server_ready.store(true)
SrvReady ==
    /\ NetRunning
    /\ srv_pc = "ready"
    /\ server_ready' = TRUE
    /\ srv_pc' = "loop"
    /\ UNCHANGED <<scenario, notNet, c2s, net_pc, net_phase, cli_pc, net_should_stop,
                   net_bound, conn, dgrams, net_counter, packets_sent,
                   cli_iters, net_failure, terminated, net_results, net_status>>

\* while (!should_stop.load())
SrvLoop ==
    /\ NetRunning
    /\ srv_pc = "loop"
    /\ srv_pc' = IF net_should_stop THEN "close" ELSE "poll"
    /\ UNCHANGED <<scenario, notNet, c2s, net_pc, net_phase, cli_pc, net_should_stop,
                   server_ready, net_bound, conn, dgrams, net_counter,
                   packets_sent, cli_iters, net_failure, terminated,
                   net_results, net_status>>

\* TCP: accept() on the non-blocking socket: a connection, EAGAIN (sleep
\* 1 ms and test the flag again), or another error (break)
SrvAccept ==
    /\ NetRunning
    /\ net_phase = "tcp"
    /\ srv_pc = "poll"
    /\ \/ /\ conn = "pending"
          /\ conn' = "accepted"
          /\ srv_pc' = "recv"
       \/ /\ conn # "pending"
          /\ conn' = conn
          /\ srv_pc' = "loop"
       \/ /\ conn' = conn
          /\ srv_pc' = "close"
    /\ UNCHANGED <<scenario, notNet, c2s, net_pc, net_phase, cli_pc, net_should_stop,
                   server_ready, net_bound, dgrams, net_counter, packets_sent,
                   cli_iters, net_failure, terminated, net_results, net_status>>

\* TCP: recv() of what the client sent, send() of the echo, addSample,
\* close(client_fd), sleep 1 ms.  The client sends right after connect(), so
\* the blocking recv on the accepted socket returns once it has.
SrvEcho ==
    /\ NetRunning
    /\ net_phase = "tcp"
    /\ srv_pc = "recv"
    /\ c2s
    /\ conn' = "echoed"
    /\ c2s' = FALSE
    /\ srv_pc' = "loop"
    /\ UNCHANGED <<scenario, notNet, net_pc, net_phase, cli_pc, net_should_stop,
                   server_ready, net_bound, dgrams, net_counter, packets_sent,
                   cli_iters, net_failure, terminated, net_results, net_status>>

\* UDP: recvfrom() on the non-blocking socket: a datagram (count it, echo
\* it, addSample), EAGAIN, or another error (break); then sleep 100 us
SrvRecvfrom ==
    /\ NetRunning
    /\ net_phase = "udp"
    /\ srv_pc = "poll"
    /\ \/ /\ dgrams > 0
          /\ dgrams' = dgrams - 1
          /\ net_counter' = net_counter + 1
          /\ srv_pc' = "loop"
       \/ /\ dgrams = 0
          /\ UNCHANGED <<dgrams, net_counter>>
          /\ srv_pc' = "loop"
       \/ /\ UNCHANGED <<dgrams, net_counter>>
          /\ srv_pc' = "close"
    /\ UNCHANGED <<scenario, notNet, c2s, net_pc, net_phase, cli_pc, net_should_stop,
                   server_ready, net_bound, conn, packets_sent, cli_iters,
                   net_failure, terminated, net_results, net_status>>

\* close(server_fd): a connection still in the backlog is reset, queued
\* datagrams are dropped
SrvClose ==
    /\ NetRunning
    /\ srv_pc = "close"
    /\ net_bound' = FALSE
    /\ conn' = IF conn = "pending" THEN "reset" ELSE conn
    /\ dgrams' = 0
    /\ srv_pc' = "done"
    /\ UNCHANGED <<scenario, notNet, c2s, net_pc, net_phase, cli_pc, net_should_stop,
                   server_ready, net_counter, packets_sent, cli_iters,
                   net_failure, terminated, net_results, net_status>>

\* while (!server_ready.load()) sleep 10 ms; then sleep 100 ms
CliWaitReady ==
    /\ NetRunning
    /\ cli_pc = "wait_ready"
    /\ server_ready
    /\ cli_pc' = IF net_phase = "tcp" THEN "loop" ELSE "socket"
    /\ UNCHANGED <<scenario, notNet, c2s, net_pc, net_phase, srv_pc, net_should_stop,
                   server_ready, net_bound, conn, dgrams, net_counter,
                   packets_sent, cli_iters, net_failure, terminated,
                   net_results, net_status>>

\* while (steady_clock::now() < end && !should_stop.load()): the deadline
\* may have passed at any test, and has after MaxIters iterations
CliLoop ==
    /\ NetRunning
    /\ cli_pc = "loop"
    /\ \/ /\ ~net_should_stop
          /\ cli_iters < MaxIters
          /\ cli_pc' = IF net_phase = "tcp" THEN "socket" ELSE "sendto"
       \/ /\ cli_pc' = IF net_phase = "tcp" THEN "done" ELSE "close"
    /\ UNCHANGED <<scenario, notNet, c2s, net_pc, net_phase, srv_pc, net_should_stop,
                   server_ready, net_bound, conn, dgrams, net_counter,
                   packets_sent, cli_iters, net_failure, terminated,
                   net_results, net_status>>

\* TCP client: socket(); on failure `continue`
CliSocketTcp ==
    /\ NetRunning
    /\ net_phase = "tcp"
    /\ cli_pc = "socket"
    /\ \/ /\ cli_pc' = "connect"
          /\ cli_iters' = cli_iters
       \/ /\ cli_pc' = "loop"
          /\ cli_iters' = cli_iters + 1
    /\ UNCHANGED <<scenario, notNet, c2s, net_pc, net_phase, srv_pc, net_should_stop,
                   server_ready, net_bound, conn, dgrams, net_counter,
                   packets_sent, net_failure, terminated, net_results, net_status>>

\* TCP client: connect() succeeds while the server listens, else is refused
CliConnect ==
    /\ NetRunning
    /\ cli_pc = "connect"
    /\ IF net_bound
       THEN /\ conn' = "pending"
            /\ cli_pc' = "send"
       ELSE /\ conn' = "none"
            /\ cli_pc' = "close"
    /\ c2s' = FALSE
    /\ UNCHANGED <<scenario, notNet, net_pc, net_phase, srv_pc, net_should_stop,
                   server_ready, net_bound, dgrams, net_counter, packets_sent,
                   cli_iters, net_failure, terminated, net_results, net_status>>

\* TCP client: send(); if sent > 0, bytes_transferred.fetch_add(sent)
CliSend ==
    /\ NetRunning
    /\ cli_pc = "send"
    /\ IF conn \in {"pending", "accepted"}
       THEN /\ c2s' = TRUE
            /\ net_counter' = net_counter + BUFFER_SIZE
            /\ cli_pc' = "recv"
       ELSE /\ UNCHANGED <<c2s, net_counter>>
            /\ cli_pc' = "close"
    /\ conn' = conn
    /\ UNCHANGED <<scenario, notNet, net_pc, net_phase, srv_pc, net_should_stop,
                   server_ready, net_bound, dgrams, packets_sent, cli_iters,
                   net_failure, terminated, net_results, net_status>>

\* TCP client: the blocking recv() returns the echo (fetch_add(received)) or,
\* when the server closed without echoing, nothing
CliRecv ==
    /\ NetRunning
    /\ cli_pc = "recv"
    /\ conn \in {"echoed", "reset"}
    /\ net_counter' = IF conn = "echoed" THEN net_counter + BUFFER_SIZE
                                         ELSE net_counter
    /\ cli_pc' = "close"
    /\ UNCHANGED <<scenario, notNet, c2s, net_pc, net_phase, srv_pc, net_should_stop,
                   server_ready, net_bound, conn, dgrams, packets_sent,
                   cli_iters, net_failure, terminated, net_results, net_status>>

\* TCP client: close(client_fd); sleep 10 ms
CliCloseTcp ==
    /\ NetRunning
    /\ net_phase = "tcp"
    /\ cli_pc = "close"
    /\ conn' = "none"
    /\ c2s' = FALSE
    /\ cli_iters' = cli_iters + 1
    /\ cli_pc' = "loop"
    /\ UNCHANGED <<scenario, notNet, net_pc, net_phase, srv_pc, net_should_stop,
                   server_ready, net_bound, dgrams, net_counter, packets_sent,
                   net_failure, terminated, net_results, net_status>>

\* UDP client: socket() succeeds or the client throws std::runtime_error
CliSocketUdp ==
    /\ NetRunning
    /\ net_phase = "udp"
    /\ cli_pc = "socket"
    /\ \/ /\ cli_pc' = "loop"
          /\ UNCHANGED <<net_failure, terminated>>
       \/ /\ ThrowInThread("client_socket")
          /\ cli_pc' = cli_pc
    /\ UNCHANGED <<scenario, notNet, c2s, net_pc, net_phase, srv_pc, net_should_stop,
                   server_ready, net_bound, conn, dgrams, net_counter,
                   packets_sent, cli_iters, net_results, net_status>>

\* UDP client: sendto(); if sent > 0, packets_sent.fetch_add(1); sleep 1 ms.
\* The datagram is queued at the server while its socket is bound.
CliSendto ==
    /\ NetRunning
    /\ cli_pc = "sendto"
    /\ \/ /\ packets_sent' = packets_sent + 1
          /\ dgrams' = IF net_bound THEN dgrams + 1 ELSE dgrams
       \/ UNCHANGED <<packets_sent, dgrams>>
    /\ cli_iters' = cli_iters + 1
    /\ cli_pc' = "loop"
    /\ UNCHANGED <<scenario, notNet, c2s, net_pc, net_phase, srv_pc, net_should_stop,
                   server_ready, net_bound, conn, net_counter, net_failure,
                   terminated, net_results, net_status>>

\* UDP client: close(client_fd)
CliCloseUdp ==
    /\ NetRunning
    /\ net_phase = "udp"
    /\ cli_pc = "close"
    /\ cli_pc' = "done"
    /\ UNCHANGED <<scenario, notNet, c2s, net_pc, net_phase, srv_pc, net_should_stop,
                   server_ready, net_bound, conn, dgrams, net_counter,
                   packets_sent, cli_iters, net_failure, terminated,
                   net_results, net_status>>

NetMain ==
    \/ NetPhaseInit \/ NetSpawnServer \/ NetSpawnClient \/ NetSetStop
    \/ NetJoinClient \/ NetJoinServer \/ NetCompute

NetServer ==
    SrvSetup \/ SrvReady \/ SrvLoop \/ SrvAccept \/ SrvEcho \/ SrvRecvfrom \/ SrvClose

NetClient ==
    \/ CliWaitReady \/ CliLoop \/ CliSocketTcp \/ CliConnect \/ CliSend \/ CliRecv
    \/ CliCloseTcp \/ CliSocketUdp \/ CliSendto \/ CliCloseUdp

(***************************************************************************)
(* The stop-flag worker phases: CPUBenchmark::run (multi-thread phase),    *)
(* MemoryBenchmark::run (contention phase) and the three workflows of      *)
(* IntegratedBenchmark.  Each constructs its threads, sleeps, stores true  *)
(* to should_stop, joins the threads in construction order, then loads     *)
(* the shared counter.                                                     *)
(***************************************************************************)
WPhases == {"cpu", "mem", "net2mem", "mem2disk", "pipeline"}

MEM_BUFFER_SIZE == 268435456

Max(a, b) == IF a >= b THEN a ELSE b

Workers == 1 .. Max(MaxThreads, 3)

\* threads of a phase: hardware_concurrency() for cpu and mem; server and
\* client; generator and writer; input, cpu and output
WThreadCounts(ph) ==
    CASE ph \in {"cpu", "mem"} -> 1 .. MaxThreads
      [] ph \in {"net2mem", "mem2disk"} -> {2}
      [] OTHER -> {3}

\* the workers whose loop body adds to the shared counter
WCounts(ph, i) ==
    CASE ph \in {"cpu", "mem"} -> TRUE
      [] ph = "net2mem" -> i = 1
      [] ph = "mem2disk" -> i = 2
      [] OTHER -> i = 1

\* what one loop iteration adds
WAmount(ph, n) ==
    CASE ph = "cpu" -> 10000
      [] ph = "mem" -> (MEM_BUFFER_SIZE \div n) \div 64
      [] ph = "mem2disk" -> 4096
      [] OTHER -> 1

WInit ==
    /\ w_main = "spawn"
    /\ w_spawned = 0
    /\ w_joined = 0
    /\ w_pc = [i \in Workers |-> "none"]
    /\ w_rounds = [i \in Workers |-> 0]
    /\ w_should_stop = FALSE
    /\ w_total = 0
    /\ w_result = -1
    /\ w_pin = [i \in Workers |-> [core_id |-> -1, pinned |-> FALSE]]
    /\ w_runs = 1

\* threads.emplace_back(...) / std::thread x([&]() {...})
WSpawn ==
    /\ scenario = "workers"
    /\ w_main = "spawn"
    /\ IF w_spawned < w_n
       THEN /\ w_spawned' = w_spawned + 1
            /\ w_pc' = [w_pc EXCEPT ![w_spawned + 1] = "start"]
            /\ w_main' = w_main
       ELSE /\ w_main' = "sleep"
            /\ UNCHANGED <<w_spawned, w_pc>>
    /\ UNCHANGED <<scenario, notW, w_runs, w_cores, w_pin, w_phase, w_n, w_joined, w_rounds,
                   w_should_stop, w_total, w_result>>

\* the sleep ends: should_stop.store(true)
WSetStop ==
    /\ scenario = "workers"
    /\ w_main = "sleep"
    /\ w_should_stop' = TRUE
    /\ w_main' = "join"
    /\ UNCHANGED <<scenario, notW, w_runs, w_cores, w_pin, w_phase, w_n, w_spawned, w_joined, w_pc,
                   w_rounds, w_total, w_result>>

\* a phase that does not wait for its threads
WJoinNoWait ==
    /\ scenario = "workers"
    /\ w_main = "join"
    /\ IF w_joined < w_n
       THEN /\ w_joined' = w_joined + 1
            /\ w_main' = w_main
       ELSE /\ w_main' = "read"
            /\ w_joined' = w_joined
    /\ UNCHANGED <<scenario, notW, w_runs, w_cores, w_pin, w_phase, w_n, w_spawned, w_pc, w_rounds,
                   w_should_stop, w_total, w_result>>

\* t.join() for each thread in construction order
WJoin ==
    /\ scenario = "workers"
    /\ w_main = "join"
    /\ IF w_joined < w_n
       THEN /\ w_pc[w_joined + 1] = "done"
            /\ w_joined' = w_joined + 1
            /\ w_main' = w_main
       ELSE /\ w_main' = "read"
            /\ w_joined' = w_joined
    /\ UNCHANGED <<scenario, notW, w_runs, w_cores, w_pin, w_phase, w_n, w_spawned, w_pc, w_rounds,
                   w_should_stop, w_total, w_result>>

\* total_ops.load() / bytes_written.load() / total_operations.load(), from
\* which the phase's throughput is computed
WRead ==
    /\ scenario = "workers"
    /\ w_main = "read"
    /\ w_result' = w_total
    /\ w_main' = "emitted"
    /\ UNCHANGED <<scenario, notW, w_runs, w_cores, w_pin, w_phase, w_n, w_spawned, w_joined, w_pc,
                   w_rounds, w_should_stop, w_total>>

\* CPUAffinity::pinThreadToCore(core_id): false for a core outside
\* 0 .. getNumCores() - 1, else whether the affinity call succeeded
pinThreadToCore(core_id, succeeds) ==
    IF core_id < 0 \/ core_id >= w_cores THEN FALSE ELSE succeeds

\* what a thread does before its loop: pin itself to core
\* thread_id % getNumCores() (cpu, mem; thread ids start at 0 and the
\* result of the call is not looked at), or open its socket or file; the
\* server and the client of the network-to-memory workflow return when
\* socket() or bind() fails
WStart(i) ==
    /\ scenario = "workers"
    /\ w_pc[i] = "start"
    /\ \/ /\ w_pc' = [w_pc EXCEPT ![i] = "loop"]
          /\ IF w_phase \in {"cpu", "mem"}
             THEN \E succeeds \in BOOLEAN :
                     w_pin' = [w_pin EXCEPT ![i] =
                        [core_id |-> (i - 1) % w_cores,
                         pinned |-> pinThreadToCore((i - 1) % w_cores,
                                                    succeeds)]]
             ELSE w_pin' = w_pin
       \/ /\ w_phase = "net2mem"
          /\ w_pc' = [w_pc EXCEPT ![i] = "done"]
          /\ w_pin' = w_pin
    /\ UNCHANGED <<scenario, notW, w_runs, w_cores, w_phase, w_n, w_main, w_spawned, w_joined,
                   w_rounds, w_should_stop, w_total, w_result>>

\* while (!should_stop.load()); the client of the network-to-memory
\* workflow also leaves at its deadline.  A worker starts at most MaxRounds
\* iterations before the sleep of the main thread ends.
WLoop(i) ==
    /\ scenario = "workers"
    /\ w_pc[i] = "loop"
    /\ \/ /\ w_should_stop
          /\ w_pc' = [w_pc EXCEPT ![i] = "done"]
       \/ /\ ~w_should_stop
          /\ w_rounds[i] < MaxRounds
          /\ w_pc' = [w_pc EXCEPT ![i] = "work"]
       \/ /\ w_phase = "net2mem"
          /\ i = 2
          /\ w_pc' = [w_pc EXCEPT ![i] = "done"]
    /\ UNCHANGED <<scenario, notW, w_runs, w_cores, w_pin, w_phase, w_n, w_main, w_spawned, w_joined,
                   w_rounds, w_should_stop, w_total, w_result>>

\* the loop body up to the counter: the arithmetic batch, the buffer pass,
\* recvfrom/memcpy, the file write
WWork(i) ==
    /\ scenario = "workers"
    /\ w_pc[i] = "work"
    /\ \/ /\ WCounts(w_phase, i)
          /\ w_pc' = [w_pc EXCEPT ![i] = "add"]
          /\ w_rounds' = w_rounds
       \/ /\ ~WCounts(w_phase, i) \/ w_phase \in {"net2mem", "mem2disk"}
          /\ w_pc' = [w_pc EXCEPT ![i] = "loop"]
          /\ w_rounds' = [w_rounds EXCEPT ![i] = @ + 1]
    /\ UNCHANGED <<scenario, notW, w_runs, w_cores, w_pin, w_phase, w_n, w_main, w_spawned, w_joined,
                   w_should_stop, w_total, w_result>>

\* a counter updated by a plain store of the worker's own count
WAddOverwrites(i) ==
    /\ scenario = "workers"
    /\ w_pc[i] = "add"
    /\ w_total' = (w_rounds[i] + 1) * WAmount(w_phase, w_n)
    /\ w_pc' = [w_pc EXCEPT ![i] = "loop"]
    /\ w_rounds' = [w_rounds EXCEPT ![i] = @ + 1]
    /\ UNCHANGED <<scenario, notW, w_runs, w_cores, w_pin, w_phase, w_n, w_main, w_spawned, w_joined,
                   w_should_stop, w_result>>

\* counter.fetch_add(amount), then back to the loop test
WAdd(i) ==
    /\ scenario = "workers"
    /\ w_pc[i] = "add"
    /\ w_total' = w_total + WAmount(w_phase, w_n)
    /\ w_pc' = [w_pc EXCEPT ![i] = "loop"]
    /\ w_rounds' = [w_rounds EXCEPT ![i] = @ + 1]
    /\ UNCHANGED <<scenario, notW, w_runs, w_cores, w_pin, w_phase, w_n, w_main, w_spawned, w_joined,
                   w_should_stop, w_result>>

\* run() is called a second time on the same object: CPUBenchmark::run
\* stores 0 in total_ops and false in should_stop and starts with an empty
\* vector of threads; MemoryBenchmark::run declares its counter, its flag
\* and its vector anew; the BenchmarkResult is a new object
WRunAgain ==
    /\ scenario = "workers"
    /\ w_phase \in {"cpu", "mem"}
    /\ w_main = "emitted"
    /\ w_runs = 1
    /\ w_runs' = w_runs + 1
    /\ w_total' = 0
    /\ w_should_stop' = FALSE
    /\ w_spawned' = 0
    /\ w_joined' = 0
    /\ w_pc' = [i \in Workers |-> "none"]
    /\ w_rounds' = [i \in Workers |-> 0]
    /\ w_pin' = [i \in Workers |-> [core_id |-> -1, pinned |-> FALSE]]
    /\ w_result' = -1
    /\ w_main' = "spawn"
    /\ UNCHANGED <<scenario, notW, w_cores, w_phase, w_n>>

WMain == WSpawn \/ WSetStop \/ WJoin \/ WRead

WThread(i) == WStart(i) \/ WLoop(i) \/ WWork(i) \/ WAdd(i)

(***************************************************************************)
(* SystemMonitor (Linux build): startMonitoring, stopMonitoring, reset,    *)
(* the destructor, called by one controlling thread, and monitoringLoop,   *)
(* run by the sampling thread.                                             *)
(***************************************************************************)
\* the delta baselines, in the order collectLinuxMetrics sets them:
\* last_sample_time, the CPU tick counters, the disk and the network counters
BaselineOrder == <<"time", "cpu", "disk", "net">>

AllBaselines == {BaselineOrder[k] : k \in 1 .. Len(BaselineOrder)}

\* the baselines a snapshot has set when it fails after the k-th of them
BaselinePrefix(k) == {BaselineOrder[j] : j \in 1 .. k}

MonInit ==
    /\ monitoring_active = FALSE
    /\ mon_ctl = "idle"
    /\ mon_thread = "none"
    /\ mon_spawns = 0
    /\ samples = <<>>
    /\ baselines = {}
    /\ timer_started = 0
    /\ mon_session = 0
    /\ mon_calls = 0
    /\ mon_last_call = "none"
    /\ mon_fails = 0

\* the controlling thread is between two calls and may make another
MonCallable ==
    /\ scenario = "monitor"
    /\ mon_ctl = "idle"
    /\ mon_calls < MaxCalls

\* a startMonitoring without the monitoring_active test
StartMonitoringUnguarded ==
    /\ MonCallable
    /\ mon_calls' = mon_calls + 1
    /\ samples' = <<>>
    /\ baselines' = {}
    /\ mon_fails' = 0
    /\ monitoring_active' = TRUE
    /\ timer_started' = mon_calls + 1
    /\ mon_thread' = "baseline"
    /\ mon_spawns' = mon_spawns + 1
    /\ mon_session' = mon_session + 1
    /\ mon_last_call' = "start"
    /\ UNCHANGED <<scenario, notMon, mon_ctl>>

\* a startMonitoring without the call of reset()
StartMonitoringNoReset ==
    /\ MonCallable
    /\ mon_calls' = mon_calls + 1
    /\ IF monitoring_active
       THEN /\ mon_last_call' = "start_noop"
            /\ UNCHANGED <<monitoring_active, mon_thread, mon_spawns, samples,
                           baselines, timer_started, mon_session, mon_fails>>
       ELSE /\ UNCHANGED <<samples, baselines>>
            /\ mon_fails' = 0
            /\ monitoring_active' = TRUE
            /\ timer_started' = mon_calls + 1
            /\ mon_thread' = "baseline"
            /\ mon_spawns' = mon_spawns + 1
            /\ mon_session' = mon_session + 1
            /\ mon_last_call' = "start"
    /\ UNCHANGED <<scenario, notMon, mon_ctl>>

\* startMonitoring(): return if monitoring_active; else reset(),
\* monitoring_active.store(true), monitoring_timer.start(), and the
\* sampling thread is constructed
StartMonitoring ==
    /\ MonCallable
    /\ mon_calls' = mon_calls + 1
    /\ IF monitoring_active
       THEN /\ mon_last_call' = "start_noop"
            /\ UNCHANGED <<monitoring_active, mon_thread, mon_spawns, samples,
                           baselines, timer_started, mon_session, mon_fails>>
       ELSE /\ samples' = <<>>
            /\ baselines' = {}
            /\ mon_fails' = 0
            /\ monitoring_active' = TRUE
            /\ timer_started' = mon_calls + 1
            /\ mon_thread' = "baseline"
            /\ mon_spawns' = mon_spawns + 1
            /\ mon_session' = mon_session + 1
            /\ mon_last_call' = "start"
    /\ UNCHANGED <<scenario, notMon, mon_ctl>>

\* a stopMonitoring that clears the flag and returns without joining
StopMonitoringNoJoin ==
    /\ MonCallable
    /\ mon_calls' = mon_calls + 1
    /\ IF ~monitoring_active
       THEN /\ mon_last_call' = "stop_noop"
            /\ UNCHANGED <<monitoring_active, mon_ctl>>
       ELSE /\ monitoring_active' = FALSE
            /\ mon_last_call' = "stop"
            /\ mon_ctl' = mon_ctl
    /\ UNCHANGED <<scenario, notMon, mon_thread, mon_spawns, samples, baselines,
                   timer_started, mon_session, mon_fails>>

\* stopMonitoring(): return if not monitoring_active; else
\* monitoring_active.store(false) and go on to join the thread
StopMonitoring ==
    /\ MonCallable
    /\ mon_calls' = mon_calls + 1
    /\ IF ~monitoring_active
       THEN /\ mon_last_call' = "stop_noop"
            /\ UNCHANGED <<monitoring_active, mon_ctl>>
       ELSE /\ monitoring_active' = FALSE
            /\ mon_ctl' = "stop_join"
            /\ mon_last_call' = mon_last_call
    /\ UNCHANGED <<scenario, notMon, mon_thread, mon_spawns, samples, baselines,
                   timer_started, mon_session, mon_fails>>

\* stopMonitoring(): monitor_thread.join() returns once the thread has
\* left monitoringLoop; then stopMonitoring returns
StopJoin ==
    /\ scenario = "monitor"
    /\ mon_ctl = "stop_join"
    /\ mon_thread = "done"
    /\ mon_thread' = "joined"
    /\ mon_ctl' = "idle"
    /\ mon_last_call' = "stop"
    /\ UNCHANGED <<scenario, notMon, monitoring_active, mon_spawns, samples,
                   baselines, timer_started, mon_session, mon_calls, mon_fails>>

\* reset(): samples.clear() and every retained baseline is cleared
Reset ==
    /\ MonCallable
    /\ mon_calls' = mon_calls + 1
    /\ samples' = <<>>
    /\ baselines' = {}
    /\ mon_last_call' = "reset"
    /\ UNCHANGED <<scenario, notMon, monitoring_active, mon_ctl, mon_thread,
                   mon_spawns, timer_started, mon_session, mon_fails>>

\* collectCurrentMetrics() called by the controlling thread, idle or while
\* the sampling thread runs: the snapshot goes to the caller; on the way
\* collectLinuxMetrics stores last_sample_time and the getters store the
\* tick, disk and network counters they read (a getter that throws leaves
\* the later ones as they were).  No lock orders these stores against those
\* of the sampling thread; either order leaves the baselines set.
CollectCurrentMetrics ==
    /\ MonCallable
    /\ mon_calls' = mon_calls + 1
    /\ \/ baselines' = AllBaselines
       \/ \E k \in 1 .. Len(BaselineOrder) - 1 :
              baselines' = baselines \cup BaselinePrefix(k)
    /\ mon_last_call' = "collect"
    /\ UNCHANGED <<scenario, notMon, monitoring_active, mon_ctl, mon_thread,
                   mon_spawns, samples, timer_started, mon_session, mon_fails>>

\* a destructor that does not stop the monitoring
DestroyNoStop ==
    /\ scenario = "monitor"
    /\ mon_ctl = "idle"
    /\ mon_ctl' = "destroyed"
    /\ UNCHANGED <<scenario, notMon, monitoring_active, mon_thread, mon_spawns,
                   samples, baselines, timer_started, mon_session, mon_calls,
                   mon_last_call, mon_fails>>

\* ~SystemMonitor(): if monitoring_active, stopMonitoring()
Destroy ==
    /\ scenario = "monitor"
    /\ mon_ctl = "idle"
    /\ IF monitoring_active
       THEN /\ monitoring_active' = FALSE
            /\ mon_ctl' = "dtor_join"
       ELSE /\ monitoring_active' = monitoring_active
            /\ mon_ctl' = "destroyed"
    /\ UNCHANGED <<scenario, notMon, mon_thread, mon_spawns, samples, baselines,
                   timer_started, mon_session, mon_calls, mon_last_call,
                   mon_fails>>

\* ~SystemMonitor(): the join inside stopMonitoring, then the object is gone
DestroyJoin ==
    /\ scenario = "monitor"
    /\ mon_ctl = "dtor_join"
    /\ mon_thread = "done"
    /\ mon_thread' = "joined"
    /\ mon_ctl' = "destroyed"
    /\ UNCHANGED <<scenario, notMon, monitoring_active, mon_spawns, samples,
                   baselines, timer_started, mon_session, mon_calls,
                   mon_last_call, mon_fails>>

\* monitoringLoop: the baseline reading before the loop; its result is
\* dropped, and a failure is logged and ignored
MonBaseline ==
    /\ scenario = "monitor"
    /\ mon_thread = "baseline"
    /\ \/ baselines' = AllBaselines
       \/ \E k \in 1 .. Len(BaselineOrder) - 1 :
              baselines' = baselines \cup BaselinePrefix(k)
    /\ mon_thread' = "loop"
    /\ UNCHANGED <<scenario, notMon, monitoring_active, mon_ctl, mon_spawns,
                   samples, timer_started, mon_session, mon_calls,
                   mon_last_call, mon_fails>>

\* while (monitoring_active.load()); a session collects at most MaxSamples
\* samples before the controlling thread stops it
MonLoop ==
    /\ scenario = "monitor"
    /\ mon_thread = "loop"
    /\ monitoring_active => Len(samples) < MaxSamples
    /\ mon_thread' = IF monitoring_active THEN "sleep" ELSE "done"
    /\ UNCHANGED <<scenario, notMon, monitoring_active, mon_ctl, mon_spawns,
                   samples, baselines, timer_started, mon_session, mon_calls,
                   mon_last_call, mon_fails>>

\* std::this_thread::sleep_for(sample_interval) returns
MonSleep ==
    /\ scenario = "monitor"
    /\ mon_thread = "sleep"
    /\ mon_thread' = "check"
    /\ UNCHANGED <<scenario, notMon, monitoring_active, mon_ctl, mon_spawns,
                   samples, baselines, timer_started, mon_session, mon_calls,
                   mon_last_call, mon_fails>>

\* a wake-up that goes on to the snapshot whatever monitoring_active says
MonCheckIgnoresStop ==
    /\ scenario = "monitor"
    /\ mon_thread = "check"
    /\ mon_thread' = "collect"
    /\ UNCHANGED <<scenario, notMon, monitoring_active, mon_ctl, mon_spawns,
                   samples, baselines, timer_started, mon_session, mon_calls,
                   mon_last_call, mon_fails>>

\* if (!monitoring_active.load()) break;
MonCheck ==
    /\ scenario = "monitor"
    /\ mon_thread = "check"
    /\ mon_thread' = IF monitoring_active THEN "collect" ELSE "done"
    /\ UNCHANGED <<scenario, notMon, monitoring_active, mon_ctl, mon_spawns,
                   samples, baselines, timer_started, mon_session, mon_calls,
                   mon_last_call, mon_fails>>

\* collectCurrentMetrics() succeeds: the snapshot is time-stamped and
\* appended
MonCollect ==
    /\ scenario = "monitor"
    /\ mon_thread = "collect"
    /\ Len(samples) < MaxSamples
    /\ samples' = Append(samples, mon_session)
    /\ baselines' = AllBaselines
    /\ mon_thread' = "loop"
    /\ UNCHANGED <<scenario, notMon, monitoring_active, mon_ctl, mon_spawns,
                   timer_started, mon_session, mon_calls, mon_last_call,
                   mon_fails>>

\* a sampling loop that a failed snapshot ends
MonCollectFailEndsLoop ==
    /\ scenario = "monitor"
    /\ mon_thread = "collect"
    /\ mon_fails < MaxFails
    /\ mon_fails' = mon_fails + 1
    /\ \E k \in 1 .. Len(BaselineOrder) - 1 :
           baselines' = baselines \cup BaselinePrefix(k)
    /\ mon_thread' = "done"
    /\ UNCHANGED <<scenario, notMon, monitoring_active, mon_ctl, mon_spawns,
                   samples, timer_started, mon_session, mon_calls,
                   mon_last_call>>

\* collectCurrentMetrics() throws: the handler logs the failure and the
\* loop goes on
MonCollectFail ==
    /\ scenario = "monitor"
    /\ mon_thread = "collect"
    /\ mon_fails < MaxFails
    /\ mon_fails' = mon_fails + 1
    /\ \E k \in 1 .. Len(BaselineOrder) - 1 :
           baselines' = baselines \cup BaselinePrefix(k)
    /\ mon_thread' = "loop"
    /\ UNCHANGED <<scenario, notMon, monitoring_active, mon_ctl, mon_spawns,
                   samples, timer_started, mon_session, mon_calls,
                   mon_last_call>>

MonController ==
    \/ StartMonitoring \/ StopMonitoring \/ StopJoin \/ Reset
    \/ CollectCurrentMetrics \/ Destroy \/ DestroyJoin

MonSampler ==
    MonBaseline \/ MonLoop \/ MonSleep \/ MonCheck \/ MonCollect \/ MonCollectFail

(***************************************************************************)
(* IPC claims.                                                             *)
(***************************************************************************)
IpcExited == ipc_pc \in {"returned", "threw"}

BothTerminated == prod_pc = "done" /\ cons_pc = "done"

\* C1: when producer and consumer have both terminated, every message the
\* producer wrote into the slot (and counted in bytes_transferred) has been
\* copied out by the consumer exactly once: the consumer read messages
\* 1..written, each once, and none is left unread.
C1_EveryMessageReadOnce ==
    BothTerminated =>
        /\ bytes_transferred = written * message_size
        /\ reads = [i \in 1..written |-> i]

\* C2: once the parent has set should_stop and posted both semaphores, the
\* producer and the consumer leave their loops, so join() and waitpid()
\* return and measureThroughput returns.
C2_ShutdownTerminates ==
    (ipc_pc = "join") ~> (BothTerminated /\ ipc_pc = "returned")

C2_Witness ==
    /\ ipc_pc = "returned"
    /\ BothTerminated
    /\ ipc_should_stop
    /\ written > 0

C4_NoResultWithOutstandingWorkers ==
    /\ w_main \in {"read", "emitted"} =>
          /\ w_should_stop
          /\ w_joined = w_n
          /\ \A i \in 1 .. w_n : w_pc[i] = "done"
    /\ w_result # -1 => w_result = w_total
    /\ net_pc = "compute" =>
          /\ net_should_stop
          /\ srv_pc = "done"
          /\ cli_pc = "done"
    /\ net_results["udp"] # -1 => net_results["udp"] = net_counter
    /\ ipc_pc \in {"read", "destroy", "returned"} =>
          /\ ipc_should_stop
          /\ BothTerminated
    /\ ipc_result # -1 => ipc_result = bytes_transferred

C4_Witness ==
    \/ /\ w_main = "emitted"
       /\ w_n > 1
       /\ w_result > 0
    \/ /\ net_pc = "returned"
       /\ net_results["tcp"] > 0
    \/ /\ ipc_pc = "returned"
       /\ ipc_result > 0

(***************************************************************************)
(* Network claims.                                                         *)
(***************************************************************************)
\* C5: when the server thread cannot create, bind or listen on its socket,
\* the failure does not terminate the process, and the BenchmarkResult that
\* run() returns has the status "error".
C5_ServerFailureSurfacesAsError ==
    net_failure \in {"socket", "bind", "listen"} =>
        /\ ~terminated
        /\ net_pc = "returned" => net_status = "error"

\* C6: once should_stop is set, the server thread and the client thread of
\* the phase both terminate and both joins return.
C6_StopTerminatesBothThreads ==
    net_should_stop ~>
        (srv_pc = "done" /\ cli_pc = "done" /\ net_pc \in {"compute", "returned"})

(***************************************************************************)
(* SystemMonitor claims.                                                   *)
(***************************************************************************)
\* what startMonitoring and stopMonitoring must leave alone when illegal
monState == <<monitoring_active, mon_ctl, mon_thread, mon_spawns, samples,
              baselines, timer_started, mon_session, mon_fails>>

\* C7: startMonitoring() while monitoring and stopMonitoring() while idle
\* are no-ops: the samples, the delta baselines and the timer are unchanged,
\* no thread is constructed, and the call returns at once (the controlling
\* thread is not left waiting in a join).
C7_IllegalTransitionsAreNoOps ==
    [][ (\/ StartMonitoring /\ monitoring_active
         \/ StopMonitoring /\ ~monitoring_active)
        => UNCHANGED monState ]_vars

C7_Witness ==
    \/ /\ mon_last_call = "start_noop"
       /\ monitoring_active
       /\ Len(samples) > 0
    \/ /\ mon_last_call = "stop_noop"
       /\ mon_session > 0

\* C8: when stopMonitoring() has returned from the monitoring state, or the
\* destructor has run, monitoring_active is false and the sampling thread
\* has been joined; and while the monitor is stopped the samples change only
\* by startMonitoring() or reset().
C8_StoppedMeansJoined ==
    /\ [](mon_ctl \in {"idle", "destroyed"} /\ mon_last_call = "stop"
             /\ ~monitoring_active
          => mon_thread = "joined")
    /\ [](mon_ctl = "destroyed"
          => ~monitoring_active /\ mon_thread \in {"none", "joined"})
    /\ [][ ~monitoring_active /\ mon_ctl \in {"idle", "destroyed"}
           /\ samples' # samples
           => StartMonitoring \/ Reset ]_vars

C8_Witness ==
    \/ /\ mon_last_call = "stop"
       /\ mon_ctl = "idle"
       /\ Len(samples) > 0
    \/ /\ mon_ctl = "destroyed"
       /\ mon_thread = "joined"
       /\ Len(samples) > 0

\* C9: startMonitoring() from idle clears the samples and the baselines
\* before the thread is constructed, so every sample held was taken in the
\* latest session.
C9_SessionStartsCleared ==
    /\ [](\A k \in 1 .. Len(samples) : samples[k] = mon_session)
    /\ [][ StartMonitoring /\ ~monitoring_active
           => /\ samples' = <<>>
              /\ baselines' = {}
              /\ mon_thread' = "baseline" ]_vars

C9_Witness ==
    /\ mon_session = 2
    /\ Len(samples) > 0

\* C10: a failed snapshot appends nothing, leaves the samples as they were
\* and the loop goes on; the sampling thread has terminated only if
\* monitoring_active is false.
C10_FailedSnapshotIsSkipped ==
    /\ [][ mon_fails' = mon_fails + 1
           => /\ samples' = samples
              /\ mon_thread' = "loop" ]_vars
    /\ [](mon_thread = "done" => ~monitoring_active)

C10_Witness ==
    /\ mon_fails > 0
    /\ monitoring_active
    /\ mon_thread = "sleep"
    /\ Len(samples) > 0

(***************************************************************************)
(* The whole system.                                                       *)
(***************************************************************************)
(***************************************************************************)
(* SystemMonitor::getCPUUsagePerCore: per-core usage from the deltas of    *)
(* the /proc/stat tick counters between two reads.                          *)
(***************************************************************************)
\* calls of getCPUUsagePerCore made on one monitor
MaxCpuCalls == 2

\* struct CpuTimes, with the counters the synthetic reads vary
CpuTimes(u, i, w) ==
    [user |-> u, nice |-> 0, system |-> 0, idle |-> i, iowait |-> w,
     irq |-> 0, softirq |-> 0, steal |-> 0]

\* CpuTimes{}
ZeroTimes == CpuTimes(0, 0, 0)

\* CpuTimes::total()
total(t) ==
    t.user + t.nice + t.system + t.idle + t.iowait + t.irq + t.softirq + t.steal

\* CpuTimes::active()
active(t) == total(t) - t.idle - t.iowait

\* the lines "cpu0", "cpu1" a read of /proc/stat can show
CoreTimes == {CpuTimes(u, i, w) : u \in {0, 50, 100}, i \in {0, 50}, w \in {0, 10}}

SecondCoreTimes == {ZeroTimes, CpuTimes(50, 50, 0)}

\* the per-core vectors readCpuTimes can return (one or two cores online)
Snapshots ==
    {<<c>> : c \in CoreTimes} \cup {<<c, d>> : c \in CoreTimes, d \in SecondCoreTimes}

AddTimes(a, b) ==
    [user |-> a.user + b.user, nice |-> a.nice + b.nice,
     system |-> a.system + b.system, idle |-> a.idle + b.idle,
     iowait |-> a.iowait + b.iowait, irq |-> a.irq + b.irq,
     softirq |-> a.softirq + b.softirq, steal |-> a.steal + b.steal]

\* the aggregate "cpu" line: the kernel prints the sum of the per-core lines
RECURSIVE SumTimes(_)
SumTimes(times) ==
    IF times = <<>> THEN ZeroTimes
    ELSE AddTimes(Head(times), SumTimes(Tail(times)))

\* the kernel's counters of running and idle time never go back between two
\* reads of one core; iowait is the one counter that may decrease
Monotone(before, after) ==
    \A i \in 1 .. Len(after) :
        i <= Len(before) =>
            /\ after[i].user >= before[i].user
            /\ after[i].idle >= before[i].idle

\* curr - prev on uint64_t, then static_cast<double>: a negative difference
\* wraps to 2^64 + v, which the record marks instead of holding the number
U64Delta(curr, prev) == [wrapped |-> curr < prev, v |-> curr - prev]

Clamp(x, lo, hi) == IF x < lo THEN lo ELSE IF x > hi THEN hi ELSE x

\* percent = 0.0; if (delta_total > 0.0) percent = clamp(active/total * 100),
\* in whole percent.  A wrapped delta is about 2^64 as a double: the ratio of
\* two wrapped deltas is 1.0, a small delta over a wrapped one is below 1e-15
Percent(delta_active, delta_total) ==
    IF ~delta_total.wrapped /\ delta_total.v = 0 THEN 0
    ELSE IF delta_total.wrapped
         THEN (IF delta_active.wrapped THEN 100 ELSE 0)
         ELSE IF delta_active.wrapped THEN 100
              ELSE Clamp((delta_active.v * 100) \div delta_total.v, 0, 100)

CpuInit ==
    /\ cpu_times_initialized = FALSE
    /\ previous_cpu_times = <<>>
    /\ previous_cpu_total = ZeroTimes
    /\ last_io_wait_percent = 0
    /\ cpu_read = <<>>
    /\ cpu_usage = <<>>
    /\ cpu_calls = 0

\* a monitor that takes the zero-initialised CpuTimes for a previous read
GetCPUUsagePerCoreNoFirstCall ==
    /\ scenario = "cpuusage"
    /\ cpu_calls < MaxCpuCalls
    /\ \E current_times \in Snapshots :
        /\ Monotone(cpu_read, current_times)
        /\ cpu_read' = current_times
        /\ cpu_usage' =
              [i \in 1 .. Len(current_times) |->
                  LET prev == IF i <= Len(previous_cpu_times)
                              THEN previous_cpu_times[i] ELSE ZeroTimes
                  IN Percent(U64Delta(active(current_times[i]), active(prev)),
                             U64Delta(total(current_times[i]), total(prev)))]
        /\ last_io_wait_percent' = 0
        /\ previous_cpu_times' = current_times
        /\ previous_cpu_total' = SumTimes(current_times)
    /\ cpu_times_initialized' = TRUE
    /\ cpu_calls' = cpu_calls + 1
    /\ UNCHANGED <<scenario, notCpu>>

\* std::vector<double> SystemMonitor::getCPUUsagePerCore()
GetCPUUsagePerCore ==
    /\ scenario = "cpuusage"
    /\ cpu_calls < MaxCpuCalls
    /\ \E current_times \in Snapshots :
        LET total_times == SumTimes(current_times) IN
        /\ Monotone(cpu_read, current_times)
        /\ cpu_read' = current_times
        /\ IF ~cpu_times_initialized
              \/ Len(previous_cpu_times) # Len(current_times)
           THEN /\ last_io_wait_percent' = 0
                /\ cpu_usage' = [i \in 1 .. Len(current_times) |-> 0]
           ELSE /\ cpu_usage' =
                     [i \in 1 .. Len(current_times) |->
                         Percent(U64Delta(active(current_times[i]),
                                          active(previous_cpu_times[i])),
                                 U64Delta(total(current_times[i]),
                                          total(previous_cpu_times[i])))]
                /\ last_io_wait_percent' =
                     Percent(U64Delta(total_times.iowait, previous_cpu_total.iowait),
                             U64Delta(total(total_times), total(previous_cpu_total)))
        /\ previous_cpu_times' = current_times
        /\ previous_cpu_total' = total_times
    /\ cpu_times_initialized' = TRUE
    /\ cpu_calls' = cpu_calls + 1
    /\ UNCHANGED <<scenario, notCpu>>

\* the CPU part of SystemMonitor::reset()
CpuReset ==
    /\ scenario = "cpuusage"
    /\ cpu_times_initialized
    /\ previous_cpu_times' = <<>>
    /\ previous_cpu_total' = ZeroTimes
    /\ cpu_times_initialized' = FALSE
    /\ last_io_wait_percent' = 0
    /\ UNCHANGED <<scenario, notCpu, cpu_read, cpu_usage, cpu_calls>>

\* active ticks of a snapshot as the contract words them
C11_ActiveTicks(t) ==
    (t.user + t.nice + t.system + t.idle + t.iowait + t.irq + t.softirq + t.steal)
        - t.idle - t.iowait

C11_TotalTicks(t) ==
    t.user + t.nice + t.system + t.idle + t.iowait + t.irq + t.softirq + t.steal

\* (delta_active / delta_total) * 100 clamped to [0,100], in whole percent
C11_Ratio(da, dt) ==
    IF dt > 0 THEN Clamp((da * 100) \div dt, 0, 100)
    ELSE IF da >= 0 THEN 0
         ELSE Clamp(((0 - da) * 100) \div (0 - dt), 0, 100)

MaxRdSamples == 2

\* seconds the clock advances while the reducers are called
MaxNow == 1

\* a double is held in fixed point, Units steps to 1.0, so that a sum of up to
\* MaxRdSamples + 1 sample values divides exactly by the number of samples
Units == MaxRdSamples * (MaxRdSamples + 1) * (MaxRdSamples + 2)

\* the double fields summed and divided by getAverageMetrics
AveragedFields ==
    {"avg_cpu_usage_percent", "cpu_frequency_mhz", "memory_used_mb",
     "memory_available_mb", "memory_usage_percent", "disk_read_mbps",
     "disk_write_mbps", "avg_io_wait_percent", "network_rx_mbps",
     "network_tx_mbps", "load_average_1min", "load_average_5min",
     "active_processes"}

\* the fields getPeakMetrics takes std::max over
PeakFields ==
    {"avg_cpu_usage_percent", "cpu_frequency_mhz", "memory_used_mb",
     "memory_usage_percent", "disk_read_mbps", "disk_write_mbps",
     "avg_io_wait_percent", "network_rx_mbps", "network_tx_mbps",
     "load_average_1min", "load_average_5min", "active_processes"}

\* ResourceMetrics(): reset() zeroes every field
ZeroMetrics ==
    [avg_cpu_usage_percent |-> 0, per_core_usage |-> <<>>,
     cpu_frequency_mhz |-> 0, thermal_throttling_detected |-> FALSE,
     context_switches |-> 0, memory_used_mb |-> 0, memory_available_mb |-> 0,
     memory_usage_percent |-> 0, page_faults |-> 0, cache_hit_ratio |-> 0,
     disk_read_mbps |-> 0, disk_write_mbps |-> 0, avg_io_wait_percent |-> 0,
     disk_operations |-> 0, network_rx_mbps |-> 0, network_tx_mbps |-> 0,
     load_average_1min |-> 0, load_average_5min |-> 0, active_processes |-> 0,
     monitoring_duration_seconds |-> 0, sample_count |-> 0]

\* a snapshot as collectLinuxMetrics fills it: usage percentages, the thermal
\* flag, the 1-minute load, free memory and the disk operation count vary
Snapshot(cpu, mem, io, thermal, load, avail, ops) ==
    [ZeroMetrics EXCEPT
        !.avg_cpu_usage_percent = cpu * Units,
        !.cpu_frequency_mhz = (cpu + 1) * Units,
        !.thermal_throttling_detected = thermal,
        !.memory_used_mb = mem * Units,
        !.memory_available_mb = avail * Units,
        !.memory_usage_percent = mem * Units,
        !.disk_read_mbps = io * Units,
        !.disk_write_mbps = io * Units,
        !.avg_io_wait_percent = io * Units,
        !.disk_operations = ops,
        !.network_rx_mbps = io * Units,
        !.network_tx_mbps = io * Units,
        !.load_average_1min = load * Units,
        !.load_average_5min = load * Units,
        !.active_processes = (cpu + 1) * Units]

\* the snapshots a session can hold: one exactly on the four thresholds, and
\* one beyond each threshold in turn
RdSnapshots ==
    {Snapshot(20, 80, 10, FALSE, 4, 20, 6),
     Snapshot(30, 50, 5, FALSE, 0, 30, 0),
     Snapshot(10, 90, 5, FALSE, 0, 10, 0),
     Snapshot(10, 50, 20, FALSE, 0, 30, 12),
     Snapshot(10, 50, 5, TRUE, 0, 30, 0),
     Snapshot(10, 50, 5, FALSE, 8, 30, 0)}

\* CPUAffinity::getNumCores() of the machine considered
RdCoreCounts == {5}

RECURSIVE SumOf(_, _)
SumOf(seq, f) == IF seq = <<>> THEN 0 ELSE Head(seq)[f] + SumOf(Tail(seq), f)

\* std::max folded over the samples, starting from the zeroed field
RECURSIVE MaxOf(_, _)
MaxOf(seq, f) ==
    IF seq = <<>> THEN 0
    ELSE LET m == MaxOf(Tail(seq), f)
         IN IF Head(seq)[f] > m THEN Head(seq)[f] ELSE m

AnyThermal(seq) == \E i \in 1 .. Len(seq) : seq[i].thermal_throttling_detected

\* a reducer that stamps the elapsed time on the result for an empty sequence
getAverageMetricsStampsEmpty(samples_, elapsed) ==
    [f \in DOMAIN ZeroMetrics |->
        IF f \in AveragedFields
        THEN (IF samples_ = <<>> THEN 0 ELSE SumOf(samples_, f) \div Len(samples_))
        ELSE IF f = "thermal_throttling_detected" THEN AnyThermal(samples_)
        ELSE IF f = "monitoring_duration_seconds" THEN elapsed
        ELSE IF f = "sample_count" THEN Len(samples_)
        ELSE ZeroMetrics[f]]

\* ResourceMetrics SystemMonitor::getAverageMetrics(); elapsed is
\* monitoring_timer.elapsedSeconds() at the time of the call
getAverageMetrics(samples_, elapsed) ==
    IF samples_ = <<>> THEN ZeroMetrics
    ELSE [f \in DOMAIN ZeroMetrics |->
            IF f \in AveragedFields THEN SumOf(samples_, f) \div Len(samples_)
            ELSE IF f = "thermal_throttling_detected" THEN AnyThermal(samples_)
            ELSE IF f = "monitoring_duration_seconds" THEN elapsed
            ELSE IF f = "sample_count" THEN Len(samples_)
            ELSE ZeroMetrics[f]]

\* ResourceMetrics SystemMonitor::getPeakMetrics()
getPeakMetrics(samples_, elapsed) ==
    IF samples_ = <<>> THEN ZeroMetrics
    ELSE [f \in DOMAIN ZeroMetrics |->
            IF f \in PeakFields THEN MaxOf(samples_, f)
            ELSE IF f = "thermal_throttling_detected" THEN AnyThermal(samples_)
            ELSE IF f = "monitoring_duration_seconds" THEN elapsed
            ELSE IF f = "sample_count" THEN Len(samples_)
            ELSE ZeroMetrics[f]]

\* InterferenceReport::InterferenceReport()
NoReport ==
    [called |-> FALSE, high_background_cpu_usage |-> FALSE,
     memory_pressure |-> FALSE, high_io_wait |-> FALSE,
     network_congestion |-> FALSE, thermal_throttling |-> FALSE,
     performance_warnings |-> <<>>]

\* bool InterferenceReport::hasInterference() const
hasInterference(report) ==
    \/ report.high_background_cpu_usage
    \/ report.memory_pressure
    \/ report.high_io_wait
    \/ report.network_congestion
    \/ report.thermal_throttling

\* push_back of one warning when the condition holds
WarnIf(cond, warnings, what) == IF cond THEN Append(warnings, what) ELSE warnings

\* InterferenceReport SystemMonitor::analyzeInterference(); the thresholds
\* 20.0, 80.0, 10.0 and getNumCores() * 0.8 are compared in fixed point
analyzeInterference(samples_, elapsed, cores) ==
    IF samples_ = <<>> THEN [NoReport EXCEPT !.called = TRUE]
    ELSE LET avg == getAverageMetrics(samples_, elapsed)
             cpu == avg.avg_cpu_usage_percent > 20 * Units
             mem == avg.memory_usage_percent > 80 * Units
             io == avg.avg_io_wait_percent > 10 * Units
             hot == avg.thermal_throttling_detected
             load == avg.load_average_1min * 10 > cores * 8 * Units
         IN [called |-> TRUE,
             high_background_cpu_usage |-> cpu,
             memory_pressure |-> mem,
             high_io_wait |-> io,
             network_congestion |-> FALSE,
             thermal_throttling |-> hot,
             performance_warnings |->
                 WarnIf(load,
                   WarnIf(hot,
                     WarnIf(io,
                       WarnIf(mem,
                         WarnIf(cpu, <<>>, "cpu"), "memory"), "io"), "thermal"),
                   "load")]

RECURSIVE SeqsUpTo(_, _)
SeqsUpTo(S, n) ==
    IF n = 0 THEN {<<>>}
    ELSE LET shorter == SeqsUpTo(S, n - 1)
         IN shorter \cup {Append(q, x) : q \in shorter, x \in S}

RdInit ==
    /\ rd_now = 0
    /\ rd_avg = <<>>
    /\ rd_peak = <<>>
    /\ rd_report = NoReport

\* time passes between two calls
RdTick ==
    /\ scenario = "reduce"
    /\ rd_now < MaxNow
    /\ rd_now' = rd_now + 1
    /\ UNCHANGED <<scenario, notRd, rd_samples, rd_cores, rd_avg, rd_peak, rd_report>>

\* the first result of a reducer and, after a further call, the latest one
Returned(results, r) == IF results = <<>> THEN <<r>> ELSE <<results[1], r>>

GetAverageMetrics ==
    /\ scenario = "reduce"
    /\ rd_avg' = Returned(rd_avg, getAverageMetrics(rd_samples, rd_now))
    /\ UNCHANGED <<scenario, notRd, rd_samples, rd_cores, rd_now, rd_peak, rd_report>>

GetPeakMetrics ==
    /\ scenario = "reduce"
    /\ rd_peak' = Returned(rd_peak, getPeakMetrics(rd_samples, rd_now))
    /\ UNCHANGED <<scenario, notRd, rd_samples, rd_cores, rd_now, rd_avg, rd_report>>

AnalyzeInterference ==
    /\ scenario = "reduce"
    /\ ~rd_report.called
    /\ rd_report' = analyzeInterference(rd_samples, rd_now, rd_cores)
    /\ UNCHANGED <<scenario, notRd, rd_samples, rd_cores, rd_now, rd_avg, rd_peak>>

\* every field of a ResourceMetrics is zero, false or empty
C12_AllZero(r) ==
    /\ \A f \in DOMAIN r \ {"per_core_usage", "thermal_throttling_detected"} : r[f] = 0
    /\ r.per_core_usage = <<>>
    /\ r.thermal_throttling_detected = FALSE

\* C12: with zero collected samples every getAverageMetrics() and every
\* getPeakMetrics() result has all fields zero/false and sample_count 0,
\* whenever it is called, and analyzeInterference() sets no flag and emits no
\* warning.
C12_EmptyReducesToZero ==
    (scenario = "reduce" /\ rd_samples = <<>>) =>
        /\ \A i \in 1 .. Len(rd_avg) : C12_AllZero(rd_avg[i])
        /\ \A i \in 1 .. Len(rd_peak) : C12_AllZero(rd_peak[i])
        /\ rd_report.called =>
              /\ ~hasInterference(rd_report)
              /\ rd_report.performance_warnings = <<>>

\* both reducers and the analysis ran on an empty sample sequence, the
\* average after the clock had advanced
C12_Witness ==
    /\ scenario = "reduce"
    /\ rd_samples = <<>>
    /\ rd_now > 0
    /\ Len(rd_avg) = 2
    /\ Len(rd_peak) >= 1
    /\ rd_report.called

\* the resource fields of the data model
C13_ResourceFields ==
    {"avg_cpu_usage_percent", "cpu_frequency_mhz", "memory_used_mb",
     "memory_available_mb", "disk_read_mbps", "disk_write_mbps",
     "disk_operations", "network_rx_mbps", "network_tx_mbps",
     "load_average_1min", "load_average_5min", "active_processes"}

\* C13: for a non-empty sample sequence every getAverageMetrics() result
\* holds, for every resource field, the arithmetic mean over the samples and
\* the OR of the throttle flags; every getPeakMetrics() result holds for
\* every one of those fields the maximum over the samples; both carry
\* sample_count = number of samples; and peak >= average field by field.
C13_AverageAndPeakCoverEveryField ==
    (scenario = "reduce" /\ rd_samples # <<>>) =>
        LET n == Len(rd_samples)
            values(f) == {rd_samples[k][f] : k \in 1 .. n}
        IN /\ \A i \in 1 .. Len(rd_avg) :
                /\ \A f \in C13_ResourceFields :
                      rd_avg[i][f] * n = SumOf(rd_samples, f)
                /\ rd_avg[i].thermal_throttling_detected = AnyThermal(rd_samples)
                /\ rd_avg[i].sample_count = n
           /\ \A j \in 1 .. Len(rd_peak) :
                /\ \A f \in C13_ResourceFields :
                      /\ rd_peak[j][f] \in values(f)
                      /\ \A v \in values(f) : rd_peak[j][f] >= v
                /\ rd_peak[j].sample_count = n
           /\ \A i \in 1 .. Len(rd_avg) : \A j \in 1 .. Len(rd_peak) :
                \A f \in C13_ResourceFields : rd_peak[j][f] >= rd_avg[i][f]

\* C14: with monitoring stopped and no start/reset in between, any two calls
\* of getAverageMetrics() return identical results in every field, and so do
\* any two calls of getPeakMetrics(), whatever the times of the calls.
C14_ReducersArePure ==
    scenario = "reduce" =>
        /\ \A i, j \in 1 .. Len(rd_avg) : rd_avg[i] = rd_avg[j]
        /\ \A i, j \in 1 .. Len(rd_peak) : rd_peak[i] = rd_peak[j]

\* the five flags of an InterferenceReport
C15_Flags ==
    {"high_background_cpu_usage", "memory_pressure", "high_io_wait",
     "network_congestion", "thermal_throttling"}

\* C15: in every report analyzeInterference() returns, the number of warnings
\* equals the number of flags set, and hasInterference() is true exactly when
\* at least one warning was emitted (each triggered condition sets its flag
\* and appends one warning).
C15_OneFlagOneWarning ==
    (scenario = "reduce" /\ rd_report.called) =>
        /\ Len(rd_report.performance_warnings)
              = Cardinality({fl \in C15_Flags : rd_report[fl]})
        /\ hasInterference(rd_report) <=> rd_report.performance_warnings # <<>>

(***************************************************************************)
(* MemoryBenchmark::measureSequentialRead / measureSequentialWrite: the    *)
(* adaptive repetition of a timed run that finished too quickly.           *)
(***************************************************************************)
NANOSECONDS_PER_SECOND == 1000000000

MIN_MEASURABLE_TIME_NS == 1000000

\* the function called: both have the same loop
AdKinds == {"read", "write"}

\* the size argument, in MiB
AdSizes == {1, 256}

\* the iterations argument (MemoryBenchmark::run passes 10)
AdIterations == {1, 2, 10, 150, 1000, 2000}

\* what timer.elapsedNanoseconds() can show for one timed run
ElapsedChoices == {0, 500000, 1000000, 2000000}

AdInit ==
    /\ ad_pc = "enter"
    /\ actual_iterations = 0
    /\ elapsed_nanoseconds = 0
    /\ ad_bytes = 0
    /\ ad_runs = <<>>
    /\ ad_result = -1

\* int actual_iterations = iterations; elapsed_nanoseconds = 0; bytes = 0
AdEnter ==
    /\ scenario = "adaptive"
    /\ ad_pc = "enter"
    /\ actual_iterations' = ad_iterations
    /\ elapsed_nanoseconds' = 0
    /\ ad_bytes' = 0
    /\ ad_pc' = "run"
    /\ UNCHANGED <<scenario, notAd, ad_kind, ad_size, ad_iterations, ad_runs, ad_result>>

\* a timed run that books the bytes of the initial request
AdTimedRunCountsInitialRequest ==
    /\ scenario = "adaptive"
    /\ ad_pc = "run"
    /\ \E e \in ElapsedChoices :
        /\ elapsed_nanoseconds' = e
        /\ ad_runs' = Append(ad_runs, <<actual_iterations, e>>)
    /\ ad_bytes' = ad_size * ad_iterations
    /\ ad_pc' = "check"
    /\ UNCHANGED <<scenario, notAd, ad_kind, ad_size, ad_iterations,
                   actual_iterations, ad_result>>

\* one pass of the do-body up to the test: the timed copy loop, then
\* elapsed_nanoseconds and bytes = size * actual_iterations
AdTimedRun ==
    /\ scenario = "adaptive"
    /\ ad_pc = "run"
    /\ \E e \in ElapsedChoices :
        /\ elapsed_nanoseconds' = e
        /\ ad_runs' = Append(ad_runs, <<actual_iterations, e>>)
    /\ ad_bytes' = ad_size * actual_iterations
    /\ ad_pc' = "check"
    /\ UNCHANGED <<scenario, notAd, ad_kind, ad_size, ad_iterations,
                   actual_iterations, ad_result>>

\* a retry that doubles the iteration count
AdCheckDoubles ==
    /\ scenario = "adaptive"
    /\ ad_pc = "check"
    /\ IF elapsed_nanoseconds < MIN_MEASURABLE_TIME_NS /\ actual_iterations < 1000
       THEN /\ actual_iterations' = actual_iterations * 2
            /\ ad_pc' = "while"
       ELSE /\ actual_iterations' = actual_iterations
            /\ ad_pc' = "finish"
    /\ UNCHANGED <<scenario, notAd, ad_kind, ad_size, ad_iterations,
                   elapsed_nanoseconds, ad_bytes, ad_runs, ad_result>>

\* if (elapsed < MIN_MEASURABLE_TIME_NS && actual_iterations < 1000)
\*     actual_iterations *= 10; else break;
AdCheck ==
    /\ scenario = "adaptive"
    /\ ad_pc = "check"
    /\ IF elapsed_nanoseconds < MIN_MEASURABLE_TIME_NS /\ actual_iterations < 1000
       THEN /\ actual_iterations' = actual_iterations * 10
            /\ ad_pc' = "while"
       ELSE /\ actual_iterations' = actual_iterations
            /\ ad_pc' = "finish"
    /\ UNCHANGED <<scenario, notAd, ad_kind, ad_size, ad_iterations,
                   elapsed_nanoseconds, ad_bytes, ad_runs, ad_result>>

\* } while (actual_iterations <= 1000);
AdWhile ==
    /\ scenario = "adaptive"
    /\ ad_pc = "while"
    /\ ad_pc' = IF actual_iterations <= 1000 THEN "run" ELSE "finish"
    /\ UNCHANGED <<scenario, notAd, ad_kind, ad_size, ad_iterations,
                   actual_iterations, elapsed_nanoseconds, ad_bytes, ad_runs,
                   ad_result>>

\* (bytes / (1024 * 1024)) / (elapsed_nanoseconds / NANOSECONDS_PER_SECOND),
\* in whole MB/s; every elapsed time considered divides a second exactly
Throughput(mib, elapsed) == mib * (NANOSECONDS_PER_SECOND \div elapsed)

\* the code after the loop: the non-positive-time guard, the division, the cap
AdFinish ==
    /\ scenario = "adaptive"
    /\ ad_pc = "finish"
    /\ LET elapsed == IF elapsed_nanoseconds <= 0 THEN MIN_MEASURABLE_TIME_NS
                      ELSE elapsed_nanoseconds
           throughput_mbps == Throughput(ad_bytes, elapsed)
       IN /\ elapsed_nanoseconds' = elapsed
          /\ ad_result' = IF throughput_mbps > 100000 THEN 100000
                          ELSE throughput_mbps
    /\ ad_pc' = "returned"
    /\ UNCHANGED <<scenario, notAd, ad_kind, ad_size, ad_iterations,
                   actual_iterations, ad_bytes, ad_runs>>

\* the thread inside measureSequentialRead or measureSequentialWrite
AdThread == AdEnter \/ AdTimedRun \/ AdCheck \/ AdWhile \/ AdFinish

\* the last timed run made: <<iterations executed, elapsed time shown>>
LastRun == ad_runs[Len(ad_runs)]

C17_ThroughputUsesLastCompletedRun ==
    (scenario = "adaptive" /\ ad_pc = "returned") =>
        LET mib == ad_size * LastRun[1]
            ns == IF LastRun[2] <= 0 THEN 1000000 ELSE LastRun[2]
            mbps == mib * (1000000000 \div ns)
        IN ad_result = IF mbps > 100000 THEN 100000 ELSE mbps

\* the function returned after one raise of the count: 10 iterations of
\* 1 MiB in 2 ms
C17_Witness ==
    /\ scenario = "adaptive"
    /\ ad_pc = "returned"
    /\ ad_iterations = 1
    /\ ad_size = 1
    /\ ad_runs = <<<<1, 500000>>, <<10, 2000000>>>>
    /\ ad_result = 5000

(***************************************************************************)
(* LatencyStats (utils.h).                                                 *)
(***************************************************************************)
\* samples one LatencyStats holds
MaxLsSamples == 3

\* member functions called on one LatencyStats
MaxLsOps == 5

\* latencies added; multiples of 12 so that sum / size is exact
LsValues == {12, 24, 36}

\* percentiles asked for
LsPercentiles == {0, 25, 50, 75, 99, 100}

RECURSIVE SumSeq(_)
SumSeq(s) == IF s = <<>> THEN 0 ELSE Head(s) + SumSeq(Tail(s))

\* x put into its place in the ascending sequence s
RECURSIVE InsertSorted(_, _)
InsertSorted(x, s) ==
    IF s = <<>> THEN <<x>>
    ELSE IF x <= Head(s) THEN <<x>> \o s
         ELSE <<Head(s)>> \o InsertSorted(x, Tail(s))

\* std::sort(sorted.begin(), sorted.end())
RECURSIVE SortAscending(_)
SortAscending(s) == IF s = <<>> THEN <<>> ELSE InsertSorted(Head(s), SortAscending(Tail(s)))

\* double getAverage() const
getAverage(s) == IF s = <<>> THEN 0 ELSE SumSeq(s) \div Len(s)

\* double getMin() const
getMin(s) ==
    IF s = <<>> THEN 0
    ELSE CHOOSE m \in {s[i] : i \in 1 .. Len(s)} : \A i \in 1 .. Len(s) : m <= s[i]

\* double getMax() const
getMax(s) ==
    IF s = <<>> THEN 0
    ELSE CHOOSE m \in {s[i] : i \in 1 .. Len(s)} : \A i \in 1 .. Len(s) : m >= s[i]

\* a getPercentile that indexes the samples in insertion order
getPercentileUnsorted(s, percentile) ==
    IF s = <<>> THEN 0
    ELSE LET index == (percentile * Len(s)) \div 100
         IN s[(IF index >= Len(s) THEN Len(s) - 1 ELSE index) + 1]

\* double getPercentile(double percentile); sorted[index] is 0-based
getPercentile(s, percentile) ==
    IF s = <<>> THEN 0
    ELSE LET sorted == SortAscending(s)
             index == (percentile * Len(sorted)) \div 100
         IN sorted[(IF index >= Len(sorted) THEN Len(sorted) - 1 ELSE index) + 1]

\* size_t getCount() const
getCount(s) == Len(s)

LsInit ==
    /\ ls_samples = <<>>
    /\ ls_last = [op |-> "none", held |-> 0, arg |-> 0, value |-> 0]
    /\ ls_ops = 0

\* void addSample(double latency_ms)
AddSample ==
    /\ scenario = "latency"
    /\ ls_ops < MaxLsOps
    /\ Len(ls_samples) < MaxLsSamples
    /\ \E v \in LsValues :
        /\ ls_samples' = Append(ls_samples, v)
        /\ ls_last' = [op |-> "addSample", held |-> Len(ls_samples), arg |-> v,
                    value |-> 0]
    /\ ls_ops' = ls_ops + 1
    /\ UNCHANGED <<scenario, notLs>>

\* a clear() that leaves the vector as it is
LsClearKeepsSamples ==
    /\ scenario = "latency"
    /\ ls_ops < MaxLsOps
    /\ ls_samples' = ls_samples
    /\ ls_last' = [op |-> "clear", held |-> Len(ls_samples), arg |-> 0, value |-> 0]
    /\ ls_ops' = ls_ops + 1
    /\ UNCHANGED <<scenario, notLs>>

\* void clear()
LsClear ==
    /\ scenario = "latency"
    /\ ls_ops < MaxLsOps
    /\ ls_samples' = <<>>
    /\ ls_last' = [op |-> "clear", held |-> Len(ls_samples), arg |-> 0, value |-> 0]
    /\ ls_ops' = ls_ops + 1
    /\ UNCHANGED <<scenario, notLs>>

\* a call of getPercentile: works on a copy of the samples
GetPercentile ==
    /\ scenario = "latency"
    /\ ls_ops < MaxLsOps
    /\ \E p \in LsPercentiles :
        ls_last' = [op |-> "getPercentile", held |-> Len(ls_samples), arg |-> p,
                    value |-> getPercentile(ls_samples, p)]
    /\ ls_ops' = ls_ops + 1
    /\ UNCHANGED <<scenario, notLs, ls_samples>>

\* every reordering of a sequence
C18_Orders(s) ==
    {[i \in 1 .. Len(s) |-> s[f[i]]] : f \in Permutations(1 .. Len(s))}

\* the ascending reordering of a sequence
C18_Ascending(s) ==
    CHOOSE q \in C18_Orders(s) : \A i \in 1 .. Len(q) - 1 : q[i] <= q[i + 1]

\* what LatencyStats answers for a non-empty sample sequence
C18_Answers(s) ==
    /\ \A p \in LsPercentiles :
          /\ getMin(s) <= getPercentile(s, p)
          /\ getPercentile(s, p) <= getMax(s)
          /\ LET n == Len(s)
                 k == (p * n) \div 100
             IN getPercentile(s, p)
                    = C18_Ascending(s)[(IF k < n - 1 THEN k ELSE n - 1) + 1]
    /\ \A p, q \in LsPercentiles :
          p <= q => getPercentile(s, p) <= getPercentile(s, q)
    /\ \A o \in C18_Orders(s) :
          /\ getMin(o) = getMin(s)
          /\ getMax(o) = getMax(s)
          /\ \A p \in LsPercentiles : getPercentile(o, p) = getPercentile(s, p)

\* C18: for every non-empty sample multiset and every p in [0,100],
\* getMin() <= getPercentile(p) <= getMax(), getPercentile is non-decreasing
\* in p and is the element at index min(floor(p/100 * n), n-1) of the
\* ascending-sorted samples; the answers are the same for every insertion
\* order; and a call of getPercentile returns that element and leaves the
\* stored samples unchanged.
C18_PercentileWithinBoundsAndOrderFree ==
    /\ []((scenario = "latency" /\ ls_samples # <<>>) => C18_Answers(ls_samples))
    /\ [][GetPercentile =>
            /\ ls_samples' = ls_samples
            /\ ls_last'.value = getPercentile(ls_samples, ls_last'.arg)]_vars

\* getPercentile was called on three samples added out of order
C18_Witness ==
    /\ scenario = "latency"
    /\ ls_samples = <<36, 12, 24>>
    /\ ls_last.op = "getPercentile"
    /\ ls_last.arg = 50
    /\ ls_last.value = 24

\* every getter of a LatencyStats holding s answers 0
C19_AllZero(s) ==
    /\ getAverage(s) = 0
    /\ getMin(s) = 0
    /\ getMax(s) = 0
    /\ getCount(s) = 0
    /\ \A p \in LsPercentiles : getPercentile(s, p) = 0

\* C19: a LatencyStats with no samples, freshly constructed or after clear()
\* following any addSample calls, answers 0 from getAverage, getMin, getMax,
\* getPercentile(p) for every p, and getCount.
C19_EmptyStatsAnswerZero ==
    /\ []((scenario = "latency" /\ ls_ops = 0) => C19_AllZero(ls_samples))
    /\ [][LsClear => C19_AllZero(ls_samples')]_vars
    /\ [][GetPercentile => (ls_samples = <<>> => ls_last'.value = 0)]_vars

\* clear() was called on a LatencyStats that held two samples
C19_Witness ==
    /\ scenario = "latency"
    /\ ls_samples = <<>>
    /\ ls_last.op = "clear"
    /\ ls_last.held = 2

(***************************************************************************)
(* PerfCounterSet (utils.h), as built on Linux.                            *)
(***************************************************************************)
\* calls of start() and stop() made on one PerfCounterSet
MaxPfCalls == 3

\* the five counters: fd_cycles, fd_instructions, fd_cache_misses,
\* fd_branches, fd_branch_misses
Counters == {"cycles", "instructions", "cache_misses", "branches", "branch_misses"}

\* what read() delivers from an enabled counter (0 also when the read fails)
ReadValues == {0, 5}

\* PerfCounterSample{}
NoSample ==
    [valid |-> FALSE, cycles |-> 0, instructions |-> 0, cache_misses |-> 0,
     branches |-> 0, branch_misses |-> 0]

\* closeAll(): every fd_* is -1
AllClosed == [c \in Counters |-> FALSE]

\* the counters whose read() can come back short while the others deliver
ReadFailures == {{}, {"cycles"}, Counters}

PfInit ==
    /\ pf_fds = AllClosed
    /\ pf_active = FALSE
    /\ opened_counters = 0
    /\ pf_os = [c \in Counters |-> 0]
    /\ pf_log = <<>>

\* ~PerfCounterSet() has run: no further call is made on the object
PfDestroyed == pf_log # <<>> /\ pf_log[Len(pf_log)].op = "destroy"

\* closeAll(), seen from the system: close(fd) for every fd_* that is not -1
closeAll(os, fds) == [c \in Counters |-> IF fds[c] THEN os[c] - 1 ELSE os[c]]

\* openCounter(): perf_event_open for the counters in `opened` delivers a
\* new handle
openCounter(os, opened) ==
    [c \in Counters |-> IF c \in opened THEN os[c] + 1 ELSE os[c]]

\* a start() that reports success and stays active whatever opened
PfStartAlwaysActive ==
    /\ scenario = "perf"
    /\ ~PfDestroyed
    /\ Len(pf_log) < MaxPfCalls
    /\ \E opened \in SUBSET Counters :
        /\ pf_fds' = [c \in Counters |-> c \in opened]
        /\ pf_os' = openCounter(closeAll(pf_os, pf_fds), opened)
        /\ opened_counters' = Cardinality(opened)
        /\ pf_active' = TRUE
        /\ pf_log' = Append(pf_log, [op |-> "start", ret |-> TRUE,
                                     sample |-> NoSample, read |-> {}])
    /\ UNCHANGED <<scenario, notPf>>

\* a start() that overwrites the fd_* members of an unfinished session
\* without closing them
PfStartNoTeardown ==
    /\ scenario = "perf"
    /\ ~PfDestroyed
    /\ Len(pf_log) < MaxPfCalls
    /\ \E opened \in SUBSET Counters :
        /\ pf_fds' = [c \in Counters |-> c \in opened]
        /\ pf_os' = openCounter(pf_os, opened)
        /\ opened_counters' = Cardinality(opened)
        /\ pf_active' = (opened # {})
        /\ pf_log' = Append(pf_log, [op |-> "start", ret |-> (opened # {}),
                                     sample |-> NoSample, read |-> {}])
    /\ UNCHANGED <<scenario, notPf>>

\* bool start(): closeAll(), five openCounter calls of which those in
\* `opened` succeed, then the zero test (whose closeAll() finds nothing open)
PfStart ==
    /\ scenario = "perf"
    /\ ~PfDestroyed
    /\ Len(pf_log) < MaxPfCalls
    /\ \E opened \in SUBSET Counters :
        /\ pf_fds' = [c \in Counters |-> c \in opened]
        /\ pf_os' = openCounter(closeAll(pf_os, pf_fds), opened)
        /\ opened_counters' = Cardinality(opened)
        /\ pf_active' = (opened # {})
        /\ pf_log' = Append(pf_log, [op |-> "start", ret |-> (opened # {}),
                                     sample |-> NoSample, read |-> {}])
    /\ UNCHANGED <<scenario, notPf>>

\* readCounter(fd): 0 for fd == -1 and when read() comes back short, else
\* what read() delivers
readCounter(open, value) == IF open THEN value ELSE 0

\* PerfCounterSample stop(); `failed` are the counters whose read() comes
\* back short
PfStop ==
    /\ scenario = "perf"
    /\ ~PfDestroyed
    /\ Len(pf_log) < MaxPfCalls
    /\ IF ~pf_active
       THEN /\ pf_log' = Append(pf_log, [op |-> "stop", ret |-> FALSE,
                                         sample |-> NoSample, read |-> {}])
            /\ UNCHANGED <<pf_fds, pf_active, opened_counters, pf_os>>
       ELSE /\ \E v \in ReadValues, failed \in ReadFailures :
                pf_log' = Append(pf_log,
                    [op |-> "stop", ret |-> FALSE,
                     sample |->
                        [valid |-> opened_counters > 0,
                         cycles |->
                            readCounter(pf_fds["cycles"]
                                        /\ "cycles" \notin failed, v),
                         instructions |->
                            readCounter(pf_fds["instructions"]
                                        /\ "instructions" \notin failed, v),
                         cache_misses |->
                            readCounter(pf_fds["cache_misses"]
                                        /\ "cache_misses" \notin failed, v),
                         branches |->
                            readCounter(pf_fds["branches"]
                                        /\ "branches" \notin failed, v),
                         branch_misses |->
                            readCounter(pf_fds["branch_misses"]
                                        /\ "branch_misses" \notin failed, v)],
                     read |-> {c \in Counters : pf_fds[c]} \ failed])
            /\ pf_active' = FALSE
            /\ pf_os' = closeAll(pf_os, pf_fds)
            /\ pf_fds' = AllClosed
            /\ opened_counters' = 0
    /\ UNCHANGED <<scenario, notPf>>

\* ~PerfCounterSet(): stop(), whose sample is dropped, then closeAll()
PfDestroy ==
    /\ scenario = "perf"
    /\ ~PfDestroyed
    /\ pf_active' = FALSE
    /\ pf_os' = closeAll(pf_os, pf_fds)
    /\ pf_fds' = AllClosed
    /\ opened_counters' = 0
    /\ pf_log' = Append(pf_log, [op |-> "destroy", ret |-> FALSE,
                                 sample |-> NoSample, read |-> {}])
    /\ UNCHANGED <<scenario, notPf>>

\* the record of the call just made
C20_Call == pf_log'[Len(pf_log')]

\* a sample with valid == false and all five counters zero
C20_Invalid(sample) ==
    /\ ~sample.valid
    /\ \A c \in Counters : sample[c] = 0

\* C20: start() returns true exactly when at least one of the five counters
\* opened; when none opened it returns false and leaves the set inactive with
\* no open handle; a stop() on an inactive set (after such a start(), or with
\* no start() before it) returns a sample with valid == false and all five
\* counters zero.
C20_FailedStartLeavesSetInert ==
    /\ [][PfStart =>
            /\ C20_Call.ret <=> (\E c \in Counters : pf_fds'[c])
            /\ ~C20_Call.ret =>
                  /\ ~pf_active'
                  /\ opened_counters' = 0
                  /\ \A c \in Counters : ~pf_fds'[c]]_vars
    /\ [][PfStop =>
            ((pf_log = <<>> \/ (pf_log[Len(pf_log)].op = "start"
                                /\ ~pf_log[Len(pf_log)].ret))
                => C20_Invalid(C20_Call.sample))]_vars

\* stop() was called right after a start() that opened nothing
C20_Witness ==
    /\ scenario = "perf"
    /\ Len(pf_log) = 2
    /\ pf_log[1].op = "start"
    /\ ~pf_log[1].ret
    /\ pf_log[2].op = "stop"
    /\ ~pf_log[2].sample.valid

\* the record of the stop() just made
C21_Call == pf_log'[Len(pf_log')]

\* C21: stop() on an active set returns a sample whose valid flag is true
\* exactly when at least one counter was actually read; a counter that
\* failed to open is reported as 0, whatever the other counters delivered.
C21_ValidIffSomeCounterRead ==
    [][(PfStop /\ pf_active) =>
            /\ C21_Call.sample.valid <=> (C21_Call.read # {})
            /\ \A c \in Counters : ~pf_fds[c] => C21_Call.sample[c] = 0]_vars

\* the handles the system holds for the set are exactly its fd_* members
C22_HandlesMatch ==
    \A c \in Counters : pf_os[c] = (IF pf_fds[c] THEN 1 ELSE 0)

\* C22: across start(), stop() and destruction every handle opened by
\* start() is closed exactly once and none leaks: the system holds one
\* handle for each fd_* member that is set and none for the others, a
\* start() leaves open only what it opened itself, stop() and the destructor
\* leave nothing open, and while the set is inactive no handle is open.
C22_EveryHandleClosedOnce ==
    /\ [](C22_HandlesMatch
          /\ (~pf_active => \A c \in Counters : pf_os[c] = 0))
    /\ [][(PfStop \/ PfDestroy) => \A c \in Counters : pf_os'[c] = 0]_vars

\* a second start() was made on a session that was never stopped, then the
\* object was destroyed
C22_Witness ==
    /\ scenario = "perf"
    /\ Len(pf_log) = 3
    /\ pf_log[1].op = "start"
    /\ pf_log[1].ret
    /\ pf_log[2].op = "start"
    /\ pf_log[2].ret
    /\ pf_log[3].op = "destroy"
    /\ \A c \in Counters : pf_os[c] = 0

\* the server thread of the current phase has executed server_ready.store(true)
C23_ServerHasSetReady == srv_pc \in {"loop", "poll", "recv", "close", "done"}

\* C23: in each network phase the client performs no connect or sendto
\* before the server of that phase has set server_ready; the server sets it
\* only with its socket bound (and, for TCP, listening); and once the threads
\* of a phase exist, server_ready is true only if the server of that phase
\* set it, so the UDP client never proceeds on the readiness of the TCP phase.
C23_ClientWaitsForServerOfItsPhase ==
    /\ [][(CliConnect \/ CliSendto) => C23_ServerHasSetReady]_vars
    /\ [][SrvReady => (net_bound /\ srv_pc = "ready" /\ server_ready')]_vars
    /\ []((scenario = "net" /\ server_ready
           /\ (srv_pc # "none" \/ cli_pc # "none"))
             => C23_ServerHasSetReady)
    /\ [][CliWaitReady => C23_ServerHasSetReady]_vars

\* the UDP client has sent a datagram, after a TCP phase that set the flag
C23_Witness ==
    /\ scenario = "net"
    /\ net_phase = "udp"
    /\ net_results["tcp"] > 0
    /\ packets_sent > 0
    /\ server_ready

\* C24: each latency sample recorded by the IPC consumer covers only the
\* interval from the return of sem_wait on the consumer semaphore to the
\* completion of the copy out of the slot; the time spent blocked in
\* sem_wait is not part of the sample.
C24_SampleExcludesBlockedTime ==
    [][ConsSample => cons_sample' = {"copy"}]_vars

\* C25: a call of collectCurrentMetrics(), idle or while monitoring, leaves
\* the monitor's sample sequence and its retained delta baselines (previous
\* CPU ticks, previous disk and network counters, last sample time)
\* unchanged.
C25_OneShotLeavesMonitorUntouched ==
    [][CollectCurrentMetrics => UNCHANGED <<samples, baselines>>]_vars

(***************************************************************************)
(* IPCBenchmark::destroySharedMemory (ipc_bench.cpp), called repeatedly on *)
(* one segment record.                                                     *)
(***************************************************************************)
\* calls of destroySharedMemory made on the segment
MaxDestroys == 2

\* the two semaphore members of SharedMemorySegment
SemMembers == {"producer_sem", "consumer_sem"}

\* the name each semaphore member was opened under
SemName(m) == IF m = "producer_sem" THEN "prod" ELSE "cons"

\* the segment createSharedMemory has built when it returns it or hands it
\* to destroySharedMemory: the mapping exists, and each sem_open either
\* delivered a handle and created its name or returned SEM_FAILED
DsSegments ==
    {[shm_ptr |-> "mapped",
      producer_sem |-> IF "producer_sem" \in ok THEN "open" ELSE "SEM_FAILED",
      consumer_sem |-> IF "consumer_sem" \in ok THEN "open" ELSE "SEM_FAILED"] :
        ok \in SUBSET SemMembers}

DsInit ==
    /\ ds_mapped = TRUE
    /\ ds_handles = {m \in SemMembers : segment[m] = "open"}
    /\ ds_names = {"shm"} \cup {SemName(m) : m \in ds_handles}
    /\ ds_calls = <<>>
    /\ ds_stale = FALSE

\* the system calls one destroySharedMemory issues on a segment record
DsIssued(seg) ==
    (IF seg.shm_ptr = "mapped" THEN {"munmap"} ELSE {})
    \cup {m \in SemMembers : seg[m] = "open"}
    \cup {"shm_unlink", "sem_unlink"}

\* a destroySharedMemory that leaves the three pointers as they were
DestroySharedMemoryKeepsPointers ==
    /\ scenario = "destroy"
    /\ Len(ds_calls) < MaxDestroys
    /\ ds_calls' = Append(ds_calls, DsIssued(segment))
    /\ ds_stale' = (\/ ds_stale
                    \/ segment.shm_ptr = "mapped" /\ ~ds_mapped
                    \/ \E m \in SemMembers :
                          segment[m] = "open" /\ m \notin ds_handles)
    /\ ds_mapped' = FALSE
    /\ ds_handles' = {}
    /\ ds_names' = {}
    /\ UNCHANGED <<scenario, notDs, segment>>

\* destroySharedMemory(segment): munmap and sem_close behind their guards,
\* the three unlink calls, then the three pointers are set to nullptr
DestroySharedMemory ==
    /\ scenario = "destroy"
    /\ Len(ds_calls) < MaxDestroys
    /\ ds_calls' = Append(ds_calls, DsIssued(segment))
    /\ ds_stale' = (\/ ds_stale
                    \/ segment.shm_ptr = "mapped" /\ ~ds_mapped
                    \/ \E m \in SemMembers :
                          segment[m] = "open" /\ m \notin ds_handles)
    /\ ds_mapped' = (ds_mapped /\ segment.shm_ptr # "mapped")
    /\ ds_handles' = {m \in ds_handles : segment[m] # "open"}
    /\ ds_names' = {}
    /\ segment' = [shm_ptr |-> "nullptr", producer_sem |-> "nullptr",
                   consumer_sem |-> "nullptr"]
    /\ UNCHANGED <<scenario, notDs>>

\* C26: destroySharedMemory is idempotent: a second call on the same segment
\* issues no munmap and no sem_close, no call ever reaches a mapping or a
\* handle that was already released, and the second call leaves the segment
\* record and the names in the system as the first call left them.
C26_DestroyIsIdempotent ==
    /\ [][(DestroySharedMemory /\ ds_calls # <<>>) =>
            /\ ds_calls'[Len(ds_calls')] = {"shm_unlink", "sem_unlink"}
            /\ UNCHANGED <<segment, ds_mapped, ds_handles, ds_names>>]_vars
    /\ [](~ds_stale)

\* a segment with both semaphores open was destroyed twice
C26_Witness ==
    /\ scenario = "destroy"
    /\ Len(ds_calls) = 2
    /\ {"munmap", "producer_sem", "consumer_sem"} \subseteq ds_calls[1]
    /\ segment.shm_ptr = "nullptr"
    /\ ~ds_mapped
    /\ ds_names = {}

(***************************************************************************)
(* main (main.cpp): the loop over the created benchmark modules, in        *)
(* standard and in context mode.                                           *)
(***************************************************************************)
\* modules named on the command line
MaxModules == 2

\* kinds of module told apart: one whose run() works on the calling thread
\* and in threads that do not throw, and the network module, whose server
\* and client threads throw std::runtime_error
SuKinds == {"cpu", "net"}

\* how the run of a module can end: run() returns status "success", run()
\* returns status "error" (it caught the exception itself), a
\* std::exception reaches main, or an exception leaves a thread function
\* of the module, which calls std::terminate
SuOutcomes(kind) ==
    {"success", "error", "throws"}
        \cup (IF kind = "net" THEN {"terminate"} ELSE {})

\* createBenchmarks: between one and MaxModules modules, in the order named
SuModuleLists ==
    UNION {[1 .. n -> SuKinds] : n \in 1 .. MaxModules}

SuInit ==
    /\ su_ran = <<>>
    /\ su_report = <<>>
    /\ su_state = "running"

\* one iteration of for (auto& benchmark : benchmarks): the try block runs
\* the module (through runBenchmarkWithContext in context mode) and adds its
\* result to the report; the handler for std::exception adds an entry with
\* status "error"; std::terminate ends the process
SuRunModule ==
    /\ scenario = "suite"
    /\ su_state = "running"
    /\ Len(su_ran) < Len(benchmarks)
    /\ LET name == benchmarks[Len(su_ran) + 1] IN
       \E outcome \in SuOutcomes(name) :
          /\ su_ran' = Append(su_ran, outcome)
          /\ CASE outcome = "success" ->
                    /\ su_report' = Append(su_report, [name |-> name,
                                                 status |-> "success"])
                    /\ su_state' = su_state
               [] outcome \in {"error", "throws"} ->
                    /\ su_report' = Append(su_report, [name |-> name,
                                                 status |-> "error"])
                    /\ su_state' = su_state
               [] OTHER ->
                    /\ su_report' = su_report
                    /\ su_state' = "terminated"
    /\ UNCHANGED <<scenario, notSu, benchmarks, context_mode>>

\* the loop is over: main goes on to write the report
SuLoopEnds ==
    /\ scenario = "suite"
    /\ su_state = "running"
    /\ Len(su_ran) = Len(benchmarks)
    /\ su_state' = "ended"
    /\ UNCHANGED <<scenario, notSu, benchmarks, context_mode, su_ran,
                   su_report>>

\* C27: in main's benchmark loops (standard and context mode) every created
\* module contributes exactly one entry to the report, in module order; a
\* module whose run fails or throws contributes an entry with status
\* "error", and all remaining modules are still run.
C27_OneEntryPerModule ==
    /\ Len(su_report) = Len(su_ran)
    /\ \A i \in 1 .. Len(su_report) :
          /\ su_report[i].name = benchmarks[i]
          /\ su_ran[i] # "success" => su_report[i].status = "error"
    /\ su_state # "running" => Len(su_ran) = Len(benchmarks)

(***************************************************************************)
(* IntegratedBenchmark (integrated_bench.cpp): the threads of the three    *)
(* workflows that touch memory_buffer, and buffer_mutex.                    *)
(***************************************************************************)
\* loop iterations a thread begins before the workflow's sleep ends
MaxBfRounds == 2

BfWorkflows == {"net2mem", "mem2disk", "pipeline"}

\* the threads of a workflow that touch memory_buffer (the client of the
\* network-to-memory workflow only sends datagrams)
BfThreads(wf) ==
    CASE wf = "net2mem" -> {"server"}
      [] wf = "mem2disk" -> {"generator", "writer"}
      [] OTHER -> {"input", "cpu", "output"}

BfAllThreads == UNION {BfThreads(wf) : wf \in BfWorkflows}

\* const size_t BUFFER_SIZE of the workflow: 1MB, 2MB, 1MB
BfBufferSize(wf) == IF wf = "mem2disk" THEN 2 * 1024 * 1024 ELSE 1024 * 1024

\* sizes of the datagrams recvfrom delivers into char recv_buffer[1024]
BfDatagrams == {1000, 1024}

\* values of total_operations at which the server is taken up: its first
\* datagram, and the datagram whose offset comes within one datagram of the
\* end of the buffer
BfOperations == {0, 1048}

\* values of the generator's offset at which it is taken up: its first
\* block, the last block that fits, and the block after it
BfOffsets == {0, 2 * 1024 * 1024 - 4096, 2 * 1024 * 1024}

\* no access made yet
BfNoAccess ==
    [thread |-> "none", kind |-> "none", from |-> 0, to |-> 0, holders |-> {}]

BfInit ==
    /\ buffer_mutex = {}
    /\ bf_pc = [t \in BfAllThreads |->
                    IF t \in BfThreads(bf_workflow) THEN "loop" ELSE "none"]
    /\ bf_rounds = [t \in BfAllThreads |-> 0]
    /\ bf_should_stop = FALSE
    /\ bf_access = BfNoAccess

\* the workflow's sleep ends: should_stop.store(true)
BfSetStop ==
    /\ scenario = "buffer"
    /\ ~bf_should_stop
    /\ bf_should_stop' = TRUE
    /\ UNCHANGED <<scenario, notBf, bf_workflow, buffer_mutex, bf_pc,
                   bf_rounds, total_operations, bf_offset, bf_access>>

\* while (!should_stop.load()), and what the body does before its guarded
\* scope: the server enters the scope only for a datagram (bytes > 0)
BfLoop(t) ==
    /\ scenario = "buffer"
    /\ bf_pc[t] = "loop"
    /\ \/ /\ bf_should_stop
          /\ bf_pc' = [bf_pc EXCEPT ![t] = "done"]
          /\ bf_rounds' = bf_rounds
       \/ /\ ~bf_should_stop
          /\ bf_rounds[t] < MaxBfRounds
          /\ bf_rounds' = [bf_rounds EXCEPT ![t] = @ + 1]
          /\ \/ bf_pc' = [bf_pc EXCEPT ![t] = "lock"]
             \/ /\ t = "server"
                /\ bf_pc' = bf_pc
    /\ UNCHANGED <<scenario, notBf, bf_workflow, buffer_mutex, bf_should_stop,
                   total_operations, bf_offset, bf_access>>

\* a lock that is taken without waiting for its holder
BfLockNoWait(t) ==
    /\ scenario = "buffer"
    /\ bf_pc[t] = "lock"
    /\ buffer_mutex' = buffer_mutex \cup {t}
    /\ bf_pc' = [bf_pc EXCEPT ![t] = "guarded"]
    /\ UNCHANGED <<scenario, notBf, bf_workflow, bf_rounds, bf_should_stop,
                   total_operations, bf_offset, bf_access>>

\* std::lock_guard<std::mutex> lock(buffer_mutex): returns once the mutex
\* is free
BfLock(t) ==
    /\ scenario = "buffer"
    /\ bf_pc[t] = "lock"
    /\ buffer_mutex = {}
    /\ buffer_mutex' = {t}
    /\ bf_pc' = [bf_pc EXCEPT ![t] = "guarded"]
    /\ UNCHANGED <<scenario, notBf, bf_workflow, bf_rounds, bf_should_stop,
                   total_operations, bf_offset, bf_access>>

\* the bytes of memory_buffer a pass of the guarded scope touches: the
\* half-open range from `from` to `to`
BfRange(t, kind, from, to) ==
    [thread |-> t, kind |-> kind, from |-> from, to |-> to,
     holders |-> buffer_mutex]

\* the body of the guarded scope.  server: the datagram is copied to
\* (total_operations * bytes) % BUFFER_SIZE if it fits, then
\* total_operations.fetch_add(1).  generator: a 4096-byte block at offset,
\* or at 0 when it does not fit.  writer: 4096 bytes from the start.  input:
\* 4 bytes at every fourth i < BUFFER_SIZE / 4, then fetch_add(1) and a
\* sleep.  cpu: 8 bytes at every eighth i < BUFFER_SIZE / 8.  output: 1024
\* bytes from the start, if the file is open.  (The last i of input is
\* BUFFER_SIZE / 4 - 4 and its 4 bytes end at BUFFER_SIZE / 4; likewise for
\* cpu.)
BfGuarded(t) ==
    /\ scenario = "buffer"
    /\ bf_pc[t] = "guarded"
    /\ LET size == BfBufferSize(bf_workflow) IN
       CASE t = "server" ->
              \E bytes \in BfDatagrams :
                 LET offset == (total_operations * bytes) % size IN
                 /\ bf_access' = IF offset + bytes <= size
                                 THEN BfRange(t, "write", offset, offset + bytes)
                                 ELSE bf_access
                 /\ total_operations' = total_operations + 1
                 /\ bf_offset' = bf_offset
         [] t = "generator" ->
              /\ IF bf_offset + 4096 <= size
                 THEN /\ bf_access' = BfRange(t, "write", bf_offset,
                                              bf_offset + 4096)
                      /\ bf_offset' = bf_offset + 4096
                 ELSE /\ bf_access' = BfRange(t, "write", 0, 4096)
                      /\ bf_offset' = 4096
              /\ total_operations' = total_operations
         [] t = "writer" ->
              /\ bf_access' = BfRange(t, "read", 0, 4096)
              /\ UNCHANGED <<total_operations, bf_offset>>
         [] t = "input" ->
              /\ bf_access' = BfRange(t, "write", 0, size \div 4)
              /\ total_operations' = total_operations + 1
              /\ bf_offset' = bf_offset
         [] t = "cpu" ->
              /\ bf_access' = BfRange(t, "read", 0, size \div 8)
              /\ UNCHANGED <<total_operations, bf_offset>>
         [] OTHER ->
              /\ \/ bf_access' = BfRange(t, "read", 0, 1024)
                 \/ bf_access' = bf_access
              /\ UNCHANGED <<total_operations, bf_offset>>
    /\ bf_pc' = [bf_pc EXCEPT ![t] = "unlock"]
    /\ UNCHANGED <<scenario, notBf, bf_workflow, buffer_mutex, bf_rounds,
                   bf_should_stop>>

\* the guarded scope ends: ~lock_guard() unlocks the mutex
BfUnlock(t) ==
    /\ scenario = "buffer"
    /\ bf_pc[t] = "unlock"
    /\ buffer_mutex' = buffer_mutex \ {t}
    /\ bf_pc' = [bf_pc EXCEPT ![t] = "loop"]
    /\ UNCHANGED <<scenario, notBf, bf_workflow, bf_rounds, bf_should_stop,
                   total_operations, bf_offset, bf_access>>

\* C28: in the three integrated workflows every read or write of
\* memory_buffer is made by a thread that holds buffer_mutex, at most one
\* thread holds the mutex at a time, a thread outside its guarded scope
\* (before it, after it, or finished) does not hold the mutex, and every
\* write stays within the bounds of the buffer.
C28_BufferAccessIsGuardedAndInBounds ==
    /\ bf_access.thread # "none" => bf_access.holders = {bf_access.thread}
    /\ Cardinality(buffer_mutex) <= 1
    /\ \A t \in BfAllThreads :
          bf_pc[t] \in {"none", "loop", "lock", "done"} => t \notin buffer_mutex
    /\ bf_access.kind = "write" =>
          /\ 0 <= bf_access.from
          /\ bf_access.from < bf_access.to
          /\ bf_access.to <= BfBufferSize(bf_workflow)

\* the generator wrote its block at the start of the buffer because the
\* block no longer fitted at its offset, the writer has read the buffer, and
\* both threads have finished
C28_Witness ==
    /\ scenario = "buffer"
    /\ bf_workflow = "mem2disk"
    /\ bf_offset = 4096
    /\ bf_rounds["generator"] = 1
    /\ bf_access.thread = "writer"
    /\ bf_pc["generator"] = "done"
    /\ bf_pc["writer"] = "done"
    /\ buffer_mutex = {}

C30_Requests == 1 .. MaxThreads

\* the smaller of two numbers
C30_Min(a, b) == IF a <= b THEN a ELSE b

\* a CPU or memory contention phase has constructed its threads
C30_Spawned == scenario = "workers" /\ w_phase \in {"cpu", "mem"} /\ w_main # "spawn"

\* worker i attempted to pin itself to core (i - 1) mod core-count, and a
\* failed pin changes nothing else: the worker runs its loop, adds to the
\* shared counter, ends on the stop flag, and the phase comes to its result
C30_PinIsBestEffort ==
    /\ \A i \in 1 .. w_n :
          w_pc[i] \in {"loop", "work", "add", "done"} =>
              w_pin[i].core_id = (i - 1) % w_cores
    /\ w_main = "emitted" =>
          /\ \A i \in 1 .. w_n : w_pc[i] = "done"
          /\ w_result = w_total

OcReads ==
    {"getAverageMetrics", "getPeakMetrics", "analyzeInterference",
     "writeSamplesToFile"}

\* one call of runBenchmarkWithContext: lines 250, 263, 285, 287-289
OcBenchmarkCall ==
    <<"startMonitoring", "phase", "stopMonitoring", "getAverageMetrics",
      "getPeakMetrics", "analyzeInterference">>

\* getSystemBaseline: lines 598-602
OcBaselineCall ==
    <<"startMonitoring", "phase", "stopMonitoring", "getAverageMetrics">>

\* the statements of each path, ending with the monitor's destructor
OcScript(path) ==
    CASE path = "runBenchmarkWithContext" ->
           OcBenchmarkCall \o OcBenchmarkCall \o <<"destroy">>
      [] path = "getSystemBaseline" -> OcBaselineCall \o <<"destroy">>
      [] path = "analyzeCurrentEnvironment" ->
           OcBaselineCall
             \o <<"startMonitoring", "phase", "stopMonitoring",
                  "analyzeInterference", "destroy">>
      [] path = "getCurrentCPUUsage" -> OcBaselineCall \o <<"destroy">>
      [] path = "main" ->
           <<"startMonitoring", "phase", "stopMonitoring",
             "writeSamplesToFile", "destroy">>

OcPaths ==
    {"runBenchmarkWithContext", "getSystemBaseline",
     "analyzeCurrentEnvironment", "getCurrentCPUUsage", "main"}

OcStatement ==
    IF oc_pc \in 1 .. Len(OcScript(oc_path)) THEN OcScript(oc_path)[oc_pc]
    ELSE "returned"

\* the sampling thread has been started and has not been joined
OcThreadLive == oc_thread \in {"baseline", "check", "collect", "done"}

OcNoRead == [op |-> "none", active |-> FALSE, thread |-> "none", samples |-> 0]

OcInit ==
    /\ oc_pc = 1
    /\ oc_ctl = "idle"
    /\ oc_active = FALSE
    /\ oc_thread = "none"
    /\ oc_samples = 0
    /\ oc_read = OcNoRead

\* SystemMonitor::startMonitoring
OcStartMonitoring ==
    /\ scenario = "orchestrate"
    /\ oc_ctl = "idle"
    /\ OcStatement = "startMonitoring"
    /\ IF oc_active
       THEN UNCHANGED <<oc_active, oc_thread, oc_samples>>
       ELSE /\ oc_samples' = 0
            /\ oc_active' = TRUE
            /\ oc_thread' = "baseline"
    /\ oc_pc' = oc_pc + 1
    /\ UNCHANGED <<scenario, notOc, oc_path, oc_ctl, oc_read>>

\* the measured phase (the benchmark's run, or a sleep) returns
OcPhase ==
    /\ scenario = "orchestrate"
    /\ OcStatement = "phase"
    /\ oc_pc' = oc_pc + 1
    /\ UNCHANGED <<scenario, notOc, oc_path, oc_ctl, oc_active, oc_thread,
                   oc_samples, oc_read>>

\* the statement at which the path goes on after benchmark->run threw: the
\* caller's catch, then the next call or the destructor
OcAfterThrow ==
    CHOOSE j \in (oc_pc + 1) .. Len(OcScript(oc_path)) :
        /\ OcScript(oc_path)[j] \in {"startMonitoring", "destroy"}
        /\ \A k \in (oc_pc + 1) .. (j - 1) :
               OcScript(oc_path)[k] \notin {"startMonitoring", "destroy"}

\* benchmark->run throws out of runBenchmarkWithContext
OcPhaseThrows ==
    /\ scenario = "orchestrate"
    /\ oc_path = "runBenchmarkWithContext"
    /\ OcStatement = "phase"
    /\ oc_pc' = OcAfterThrow
    /\ UNCHANGED <<scenario, notOc, oc_path, oc_ctl, oc_active, oc_thread,
                   oc_samples, oc_read>>

\* stopMonitoring that returns as soon as the flag is cleared
OcStopMonitoringNoJoin ==
    /\ scenario = "orchestrate"
    /\ oc_ctl = "idle"
    /\ OcStatement \in {"stopMonitoring", "destroy"}
    /\ oc_active' = FALSE
    /\ oc_pc' = oc_pc + 1
    /\ UNCHANGED <<scenario, notOc, oc_path, oc_ctl, oc_thread, oc_samples,
                   oc_read>>

\* SystemMonitor::stopMonitoring, also as the destructor calls it
OcStopMonitoring ==
    /\ scenario = "orchestrate"
    /\ oc_ctl = "idle"
    /\ OcStatement \in {"stopMonitoring", "destroy"}
    /\ IF oc_active
       THEN /\ oc_active' = FALSE
            /\ oc_ctl' = "join"
            /\ UNCHANGED oc_pc
       ELSE /\ oc_pc' = oc_pc + 1
            /\ UNCHANGED <<oc_active, oc_ctl>>
    /\ UNCHANGED <<scenario, notOc, oc_path, oc_thread, oc_samples, oc_read>>

\* monitor_thread.join() returns once monitoringLoop has returned
OcJoin ==
    /\ scenario = "orchestrate"
    /\ oc_ctl = "join"
    /\ oc_thread = "done"
    /\ oc_thread' = "joined"
    /\ oc_ctl' = "idle"
    /\ oc_pc' = oc_pc + 1
    /\ UNCHANGED <<scenario, notOc, oc_path, oc_active, oc_samples, oc_read>>

\* a reducer, or writeSamplesToFile, walks the samples vector
OcRead ==
    /\ scenario = "orchestrate"
    /\ oc_ctl = "idle"
    /\ OcStatement \in OcReads
    /\ oc_read' = [op |-> OcStatement, active |-> oc_active,
                   thread |-> oc_thread, samples |-> oc_samples]
    /\ oc_pc' = oc_pc + 1
    /\ UNCHANGED <<scenario, notOc, oc_path, oc_ctl, oc_active, oc_thread,
                   oc_samples>>

\* SystemMonitor::monitoringLoop on the sampling thread
OcSampler ==
    /\ scenario = "orchestrate"
    /\ \/ /\ oc_thread = "baseline"
          /\ oc_thread' = "check"
          /\ UNCHANGED oc_samples
       \/ /\ oc_thread = "check"
          /\ oc_thread' = IF oc_active THEN "collect" ELSE "done"
          /\ UNCHANGED oc_samples
       \/ /\ oc_thread = "collect"
          /\ oc_samples' = IF oc_samples < MaxSamples THEN oc_samples + 1
                            ELSE oc_samples
          /\ oc_thread' = "check"
    /\ UNCHANGED <<scenario, notOc, oc_path, oc_pc, oc_ctl, oc_active, oc_read>>

\* C31: on every orchestration path the monitor is sampling while the phase
\* runs, and every read of the samples (average, peak, interference, file
\* dump) is made with monitoring stopped and the sampling thread joined, so
\* no read runs beside an append
C31_ReadsOnlyAfterStop ==
    /\ [](scenario = "orchestrate" /\ OcStatement = "phase"
            => oc_active /\ OcThreadLive)
    /\ [][OcRead => ~oc_active /\ oc_thread = "joined"]_vars

C31_Witness ==
    /\ scenario = "orchestrate"
    /\ oc_read.op = "writeSamplesToFile"
    /\ oc_read.thread = "joined"
    /\ oc_read.samples > 0

\* C32: the two semaphores make the slot a single-slot ping-pong: in every
\* reachable state, shutdown after the parent's two extra posts included, the
\* producer's write and the consumer's copy are never both in progress, and
\* the accesses to the slot alternate write, read, write, ... from a write
C32_SingleSlotPingPong ==
    /\ [](~(prod_pc = "copy" /\ cons_pc = "copy"))
    /\ [](written - Len(reads) \in {0, 1})
    /\ [][ProdCopy => written = Len(reads)]_vars
    /\ [][ConsCopy => written = Len(reads) + 1 /\ slot = written]_vars

C32_Witness ==
    /\ scenario = "ipc"
    /\ ipc_should_stop
    /\ ipc_pc \notin {"set_stop", "post_prod", "post_cons"}
    /\ BothTerminated
    /\ written = MaxMsgs
    /\ Len(reads) = MaxMsgs

\* C33: when measureThroughput returns, the LatencyStats that run() passed in
\* holds one sample per message the consumer consumed
C33_OneSamplePerMessageConsumed ==
    scenario = "ipc" /\ ipc_pc = "returned" => size_stats = Len(reads)

\* what the code does: the samples are in the child's own object
C33_SamplesStayInChild ==
    /\ size_stats = 0
    /\ child_stats <= Len(reads)
    /\ BothTerminated => child_stats \in {Len(reads) - 1, Len(reads)}

\* the sum of the increments workers 1 .. k performed in this run
RECURSIVE WSum(_)
WSum(k) ==
    IF k = 0 THEN 0 ELSE w_rounds[k] * WAmount(w_phase, w_n) + WSum(k - 1)

\* C34: when the CPU multi-thread phase or the memory contention phase has
\* joined its workers, the shared counter (as at every earlier moment of the
\* phase) equals the sum of the increments the workers performed, under
\* every interleaving, and so does the value loaded; and every run() on the
\* same object, the second included, begins spawning with the counter at 0
\* and the stop flag clear, which stays clear until the sleep has ended
C34_CounterIsSumOfIncrements ==
    scenario = "workers" /\ w_phase \in {"cpu", "mem"} =>
        /\ w_total = WSum(w_n)
        /\ w_main = "emitted" => w_result = WSum(w_n)
        /\ w_main = "spawn" /\ w_spawned = 0 => w_total = 0
        /\ w_main \in {"spawn", "sleep"} => ~w_should_stop

C34_Witness ==
    /\ scenario = "workers"
    /\ w_phase = "cpu"
    /\ w_n = MaxThreads
    /\ w_runs = 2
    /\ w_main = "emitted"
    /\ w_result = MaxThreads * MaxRounds * 10000

(***************************************************************************)
(* ComparisonEngine (comparison.cpp): compareMetric, calculateStatus and   *)
(* getOverallHealth.  Values are the measured figures; percentages are     *)
(* kept in tenths of a percent.                                            *)
(***************************************************************************)
\* metrics compared in one model run
MaxMetrics == 2

\* the names compare() passes to compareMetric, character by character
CmThroughput == <<"T", "h", "r", "o", "u", "g", "h", "p", "u", "t">>

CmAvgLatency == <<"A", "v", "g", " ", "L", "a", "t", "e", "n", "c", "y">>

CmP50Latency == <<"P", "5", "0", " ", "L", "a", "t", "e", "n", "c", "y">>

CmP99Latency == <<"P", "9", "9", " ", "L", "a", "t", "e", "n", "c", "y">>

CmLatencyNames == {CmAvgLatency, CmP50Latency, CmP99Latency}

CmNames == {CmThroughput} \cup CmLatencyNames

\* the defaults (10 %, 25 %) and a pair given on the command line
CmThresholds ==
    {[warning |-> 10, critical |-> 25], [warning |-> 5, critical |-> 20]}

CmBaselines == {0, 200}

\* changes of 0, 5, 5.5, 10, 10.5, 25 and 25.5 percent of 200, up and down
CmCurrents ==
    {0, 149, 150, 179, 180, 189, 190, 200, 210, 211, 220, 221, 250, 251}

\* std::string::find(needle) != npos: the needle occurs, case and all
find(haystack, needle) ==
    \E i \in 1 .. Len(haystack) :
        /\ i + Len(needle) - 1 <= Len(haystack)
        /\ SubSeq(haystack, i, i + Len(needle) - 1) = needle

\* compareMetric's percent_change, in tenths of a percent
percent_change(baseline, current) ==
    IF baseline # 0 THEN ((current - baseline) * 1000) \div baseline
    ELSE IF current # 0 THEN 1000 ELSE 0

\* MetricComparison::calculateStatus
calculateStatus(metric_name, change, warning_threshold, critical_threshold) ==
    LET higher_is_better ==
            ~(\/ find(metric_name, <<"l", "a", "t", "e", "n", "c", "y">>)
              \/ find(metric_name, <<"t", "i", "m", "e">>))
    IN IF higher_is_better
       THEN IF change > 50 THEN "IMPROVED"
            ELSE IF change >= -(warning_threshold * 10) THEN "UNCHANGED"
            ELSE IF change >= -(critical_threshold * 10) THEN "DEGRADED"
            ELSE "CRITICAL"
       ELSE IF change < -50 THEN "IMPROVED"
            ELSE IF change <= warning_threshold * 10 THEN "UNCHANGED"
            ELSE IF change <= critical_threshold * 10 THEN "DEGRADED"
            ELSE "CRITICAL"

CmNone ==
    [metric_name |-> <<>>, baseline_value |-> 0, current_value |-> 0,
     percent_change |-> 0, status |-> "none"]

CmInit ==
    /\ cm_last = CmNone
    /\ cm_statuses = <<>>
    /\ cm_health = "none"

\* compare(): one metric of one benchmark goes through compareMetric, which
\* drops its higher_is_better argument, and is added to the comparison
CompareMetric ==
    /\ scenario = "compare"
    /\ cm_health = "none"
    /\ Len(cm_statuses) < MaxMetrics
    /\ \E name \in CmNames, baseline \in CmBaselines, current \in CmCurrents :
        /\ baseline > 0 \/ current > 0
        /\ LET change == percent_change(baseline, current)
               status == calculateStatus(name, change, cm_thresholds.warning,
                                         cm_thresholds.critical)
           IN /\ cm_last' = [metric_name |-> name, baseline_value |-> baseline,
                             current_value |-> current,
                             percent_change |-> change, status |-> status]
              /\ cm_statuses' = Append(cm_statuses, status)
    /\ UNCHANGED <<scenario, notCm, cm_thresholds, cm_health>>

\* ComparisonEngine::getOverallHealth
GetOverallHealth ==
    /\ scenario = "compare"
    /\ cm_health = "none"
    /\ LET has(st) == \E k \in 1 .. Len(cm_statuses) : cm_statuses[k] = st
       IN cm_health' = IF has("CRITICAL") THEN "CRITICAL"
                       ELSE IF has("DEGRADED") THEN "WARNING"
                       ELSE "HEALTHY"
    /\ UNCHANGED <<scenario, notCm, cm_thresholds, cm_last, cm_statuses>>

\* a change above critical is CRITICAL, one above warning and at most
\* critical is DEGRADED, and an improvement of more than 5 % is IMPROVED,
\* where worse means the given sign of the change (in tenths of a percent)
CmGraded(worse) ==
    LET change == worse * cm_last.percent_change
    IN /\ change > cm_thresholds.critical * 10 => cm_last.status = "CRITICAL"
       /\ change > cm_thresholds.warning * 10
            /\ change <= cm_thresholds.critical * 10
            => cm_last.status = "DEGRADED"
       /\ change < -50 => cm_last.status = "IMPROVED"

\* C35: compare() grades the latency metrics as lower is better and
\* Throughput in the opposite direction, and the overall health is CRITICAL
\* with any CRITICAL metric, else WARNING with any DEGRADED one, else HEALTHY
C35_LatencyLowerIsBetter ==
    /\ cm_last.metric_name \in CmLatencyNames => CmGraded(1)
    /\ cm_last.metric_name = CmThroughput => CmGraded(-1)
    /\ cm_health # "none" =>
         LET has(st) == \E k \in 1 .. Len(cm_statuses) : cm_statuses[k] = st
         IN cm_health = IF has("CRITICAL") THEN "CRITICAL"
                        ELSE IF has("DEGRADED") THEN "WARNING"
                        ELSE "HEALTHY"

\* what the code does: every metric compare() passes, the latency ones
\* included, is graded as higher is better
C35_EveryMetricHigherIsBetter ==
    cm_last.status # "none" => CmGraded(-1)

\* C36: when the producer and the consumer have both terminated, the number
\* of messages written and counted (bytes_transferred / message_size) is the
\* number of messages the consumer copied or one more, never smaller; and
\* bytes_transferred is at every moment an exact multiple of message_size
C36_CountedAtMostOneAhead ==
    scenario = "ipc" =>
        /\ bytes_transferred % message_size = 0
        /\ BothTerminated =>
              (bytes_transferred \div message_size) - Len(reads) \in {0, 1}

C36_Witness ==
    /\ scenario = "ipc"
    /\ BothTerminated
    /\ Len(reads) = 1
    /\ bytes_transferred = 2 * message_size

\* monitor_thread refers to a thread that has not been joined
MonThreadExists == mon_thread \notin {"none", "joined"}

MaxApSamples == 3

Half == 2 ^ 16

\* the uint32_t with the given halves
U32(hi, lo) == [hi |-> hi, lo |-> lo]

\* the "processes" line of /proc/stat (forks since boot) as getSystemLoad
\* reads it: 1000, 1500000000 and 4294967295
ApValues == {U32(0, 1000), U32(22888, 12032), U32(65535, 65535)}

ApNone == [hi |-> -1, lo |-> -1]

\* a += b with every carry kept: the mathematical sum, its upper half
\* unbounded
addExact(a, b) ==
    LET lo == a.lo + b.lo
    IN [hi |-> a.hi + b.hi + lo \div Half, lo |-> lo % Half]

\* avg.active_processes += sample.active_processes on uint32_t: modulo 2^32
addU32(a, b) ==
    LET sum == addExact(a, b)
    IN [hi |-> sum.hi % Half, lo |-> sum.lo]

\* a / count, by long division over the halves
divU32(a, count) ==
    [hi |-> a.hi \div count, lo |-> ((a.hi % count) * Half + a.lo) \div count]

\* the loop of getAverageMetrics over the samples, with the given addition
RECURSIVE ApSum(_, _)
ApSum(seq, wraps) ==
    IF seq = <<>> THEN U32(0, 0)
    ELSE LET rest == ApSum(SubSeq(seq, 1, Len(seq) - 1), wraps)
         IN IF wraps THEN addU32(rest, seq[Len(seq)])
            ELSE addExact(rest, seq[Len(seq)])

ApInit ==
    /\ ap_samples = <<>>
    /\ ap_avg = ApNone

\* monitoringLoop appends a sample whose active_processes getSystemLoad read
ApCollect ==
    /\ scenario = "processes"
    /\ ap_avg = ApNone
    /\ Len(ap_samples) < MaxApSamples
    /\ \E processes \in ApValues : ap_samples' = Append(ap_samples, processes)
    /\ UNCHANGED <<scenario, notAp, ap_avg>>

\* getAverageMetrics(): the field summed over the samples and divided by count
GetAverageActiveProcesses ==
    /\ scenario = "processes"
    /\ ap_avg = ApNone
    /\ ap_avg' = IF ap_samples = <<>> THEN U32(0, 0)
                 ELSE divU32(ApSum(ap_samples, TRUE), Len(ap_samples))
    /\ UNCHANGED <<scenario, notAp, ap_samples>>

\* C38: the running sum of active_processes stays below 2^32 for every
\* sample sequence, so the average reported is floor(sum of the samples'
\* active_processes / sample count)
C38_AverageWithoutWrapAround ==
    /\ ApSum(ap_samples, TRUE) = ApSum(ap_samples, FALSE)
    /\ ap_avg # ApNone /\ ap_samples # <<>> =>
          ap_avg = divU32(ApSum(ap_samples, FALSE), Len(ap_samples))

\* what the code computes: floor((sum modulo 2^32) / count)
C38_AverageOfWrappedSum ==
    ap_avg # ApNone /\ ap_samples # <<>> =>
        LET sum == ApSum(ap_samples, FALSE)
        IN ap_avg = divU32([hi |-> sum.hi % Half, lo |-> sum.lo],
                           Len(ap_samples))

\* C39: for every initial count >= 1 and whatever times the runs show, the
\* adaptive loop of measureSequentialRead/Write ends and the function
\* returns; it makes at most four timed runs, and every run after the first
\* executes exactly ten times the iterations of the run before it
C39_AdaptiveLoopTerminates ==
    /\ [](scenario = "adaptive" /\ ad_iterations >= 1 =>
            /\ Len(ad_runs) <= 4
            /\ \A k \in 2 .. Len(ad_runs) :
                   ad_runs[k][1] = 10 * ad_runs[k - 1][1])
    /\ (scenario = "adaptive" /\ ad_iterations >= 1) ~> (ad_pc = "returned")

C39_Witness ==
    /\ scenario = "adaptive"
    /\ ad_pc = "returned"
    /\ Len(ad_runs) = 4
    /\ ad_runs[4][1] = 1000

(***************************************************************************)
(* MemoryBenchmark::run, the contention phase: num_threads threads, each   *)
(* incrementing every 64th byte of its part of the buffer, and the buffer  *)
(* freed at the end of run().                                              *)
(***************************************************************************)
\* std::thread::hardware_concurrency() is between 1 and MaxCtThreads
MaxCtThreads == 3

CtThreads == 1 .. MaxCtThreads

\* the whole 256 MB, or the 8 MB left after five failed allocations
CtBufferSizes == {MEM_BUFFER_SIZE, MEM_BUFFER_SIZE \div 32}

\* size_t thread_size = buffer_size / num_threads, rounded up instead
thread_sizeRoundedUp(size, n) == (size + n - 1) \div n

\* size_t thread_size = buffer_size / num_threads
thread_size(size, n) == size \div n

\* size_t thread_offset = (buffer_size / num_threads) * i, for the thread
\* constructed with i = t - 1
thread_offset(size, n, t) == (size \div n) * (t - 1)

\* the values of j in for (j = 0; j < thread_size; j += 64) looked at: the
\* first and the last
CtSteps(size, n) ==
    IF thread_size(size, n) = 0 THEN {}
    ELSE {0, ((thread_size(size, n) - 1) \div 64) * 64}

CtInit ==
    /\ ct_main = "spawn"
    /\ ct_spawned = 0
    /\ ct_joined = 0
    /\ ct_should_stop = FALSE
    /\ ct_pc = [t \in CtThreads |-> "none"]
    /\ ct_byte = [t \in CtThreads |-> -1]

\* threads.emplace_back([&, i]() {...}) for i = 0 .. num_threads - 1
CtSpawn ==
    /\ scenario = "contention"
    /\ ct_main = "spawn"
    /\ IF ct_spawned < num_threads
       THEN /\ ct_spawned' = ct_spawned + 1
            /\ ct_pc' = [ct_pc EXCEPT ![ct_spawned + 1] = "loop"]
            /\ ct_main' = ct_main
       ELSE /\ ct_main' = "sleep"
            /\ UNCHANGED <<ct_spawned, ct_pc>>
    /\ UNCHANGED <<scenario, notCt, num_threads, buffer_size, ct_joined,
                   ct_should_stop, ct_byte>>

\* the sleep of two seconds ends: should_stop.store(true)
CtSetStop ==
    /\ scenario = "contention"
    /\ ct_main = "sleep"
    /\ ct_should_stop' = TRUE
    /\ ct_main' = "join"
    /\ UNCHANGED <<scenario, notCt, num_threads, buffer_size, ct_spawned,
                   ct_joined, ct_pc, ct_byte>>

\* t.join() for each thread in construction order
CtJoin ==
    /\ scenario = "contention"
    /\ ct_main = "join"
    /\ IF ct_joined < num_threads
       THEN /\ ct_pc[ct_joined + 1] = "done"
            /\ ct_joined' = ct_joined + 1
            /\ ct_main' = ct_main
       ELSE /\ ct_main' = "free"
            /\ ct_joined' = ct_joined
    /\ UNCHANGED <<scenario, notCt, num_threads, buffer_size, ct_spawned,
                   ct_should_stop, ct_pc, ct_byte>>

\* the throughput is computed and std::free(buffer) is called
CtFree ==
    /\ scenario = "contention"
    /\ ct_main = "free"
    /\ ct_main' = "freed"
    /\ UNCHANGED <<scenario, notCt, num_threads, buffer_size, ct_spawned,
                   ct_joined, ct_should_stop, ct_pc, ct_byte>>

\* while (!should_stop.load())
CtLoop(t) ==
    /\ scenario = "contention"
    /\ ct_pc[t] = "loop"
    /\ ct_pc' = [ct_pc EXCEPT ![t] = IF ct_should_stop THEN "done" ELSE "pass"]
    /\ UNCHANGED <<scenario, notCt, num_threads, buffer_size, ct_main,
                   ct_spawned, ct_joined, ct_should_stop, ct_byte>>

\* thread_buffer[j]++ for one j of the pass
CtWrite(t) ==
    /\ scenario = "contention"
    /\ ct_pc[t] = "pass"
    /\ \E j \in CtSteps(buffer_size, num_threads) :
           ct_byte' = [ct_byte EXCEPT
                          ![t] = thread_offset(buffer_size, num_threads, t) + j]
    /\ UNCHANGED <<scenario, notCt, num_threads, buffer_size, ct_main,
                   ct_spawned, ct_joined, ct_should_stop, ct_pc>>

\* the pass is over: total_ops.fetch_add(thread_size / 64)
CtAdd(t) ==
    /\ scenario = "contention"
    /\ ct_pc[t] = "pass"
    /\ ct_pc' = [ct_pc EXCEPT ![t] = "loop"]
    /\ UNCHANGED <<scenario, notCt, num_threads, buffer_size, ct_main,
                   ct_spawned, ct_joined, ct_should_stop, ct_byte>>

\* the bytes of thread t's part are those from CtFirst(t) up to, not
\* including, CtEnd(t)
CtFirst(t) == thread_offset(buffer_size, num_threads, t)

CtEnd(t) == CtFirst(t) + thread_size(buffer_size, num_threads)

\* C40: for every thread count >= 1 the parts of the threads are pairwise
\* disjoint and inside the buffer, every byte a thread writes is inside its
\* own part (so no byte is written by two threads), no thread writes after
\* the buffer has been freed, and the buffer is freed only after every
\* worker has been joined
C40_PartsDisjointAndFreedAfterJoin ==
    scenario = "contention" =>
        /\ \A t \in 1 .. num_threads :
              /\ 0 <= CtFirst(t)
              /\ CtEnd(t) <= buffer_size
              /\ ct_byte[t] # -1 => CtFirst(t) <= ct_byte[t] /\ ct_byte[t] < CtEnd(t)
              /\ \A u \in 1 .. num_threads :
                     t < u => CtEnd(t) <= CtFirst(u)
              /\ ct_main = "freed" => ct_pc[t] = "done"
        /\ \A t, u \in 1 .. num_threads :
              t # u /\ ct_byte[t] # -1 => ct_byte[t] # ct_byte[u]
        /\ ct_main = "freed" => ct_joined = num_threads

C40_Witness ==
    /\ scenario = "contention"
    /\ num_threads = 3
    /\ buffer_size = MEM_BUFFER_SIZE
    /\ ct_main = "freed"
    /\ ct_byte[1] = 89478464
    /\ ct_byte[2] = 89478485
    /\ ct_byte[3] = 268435434

Scenarios ==
    {"ipc", "net", "workers", "monitor", "cpuusage", "reduce", "adaptive",
     "latency", "perf", "destroy", "suite",
     "buffer", "orchestrate", "compare", "processes", "contention"}

Init ==
    /\ scenario \in Scenarios
    /\ IpcInit
    /\ message_size \in (IF scenario = "ipc" THEN MESSAGE_SIZES ELSE {64})
    /\ NetInit
    /\ WInit
    /\ w_phase \in (IF scenario = "workers" THEN WPhases ELSE {"cpu"})
    /\ w_n \in (IF scenario = "workers" THEN WThreadCounts(w_phase) ELSE {1})
    /\ w_cores \in (IF scenario = "workers" /\ w_phase \in {"cpu", "mem"}
                     THEN 1 .. MaxThreads ELSE {1})
    /\ MonInit
    /\ CpuInit
    /\ RdInit
    /\ rd_samples \in (IF scenario = "reduce"
                        THEN SeqsUpTo(RdSnapshots, MaxRdSamples) ELSE {<<>>})
    /\ rd_cores \in (IF scenario = "reduce" THEN RdCoreCounts ELSE {5})
    /\ AdInit
    /\ ad_kind \in (IF scenario = "adaptive" THEN AdKinds ELSE {"read"})
    /\ ad_size \in (IF scenario = "adaptive" THEN AdSizes ELSE {1})
    /\ ad_iterations \in (IF scenario = "adaptive" THEN AdIterations ELSE {10})
    /\ LsInit
    /\ PfInit
    /\ segment \in (IF scenario = "destroy" THEN DsSegments
                     ELSE {CHOOSE seg \in DsSegments : seg.producer_sem = "open"
                                                      /\ seg.consumer_sem = "open"})
    /\ DsInit
    /\ benchmarks \in (IF scenario = "suite" THEN SuModuleLists ELSE {<<"cpu">>})
    /\ context_mode \in (IF scenario = "suite" THEN BOOLEAN ELSE {FALSE})
    /\ SuInit
    /\ bf_workflow \in (IF scenario = "buffer" THEN BfWorkflows ELSE {"net2mem"})
    /\ total_operations \in (IF scenario = "buffer" /\ bf_workflow = "net2mem"
                              THEN BfOperations ELSE {0})
    /\ bf_offset \in (IF scenario = "buffer" /\ bf_workflow = "mem2disk"
                       THEN BfOffsets ELSE {0})
    /\ BfInit
    /\ oc_path \in (IF scenario = "orchestrate" THEN OcPaths
                     ELSE {"getSystemBaseline"})
    /\ OcInit
    /\ cm_thresholds \in (IF scenario = "compare" THEN CmThresholds
                           ELSE {[warning |-> 10, critical |-> 25]})
    /\ CmInit
    /\ ApInit
    /\ num_threads \in (IF scenario = "contention" THEN 1 .. MaxCtThreads
                         ELSE {1})
    /\ buffer_size \in (IF scenario = "contention" THEN CtBufferSizes
                         ELSE {MEM_BUFFER_SIZE})
    /\ CtInit

Next ==
    \/ IpcCreate \/ IpcCreateFailed \/ IpcFork \/ IpcSpawnProducer \/ IpcSetStop
    \/ IpcPostProd \/ IpcPostCons \/ IpcJoin \/ IpcWaitpid \/ IpcReadCounter
    \/ IpcDestroy \/ IpcCatch
    \/ ProdWaitInterrupted \/ ConsWaitInterrupted
    \/ ProdLoop \/ ProdWait \/ ProdCheck \/ ProdCopy \/ ProdPost \/ ProdAdd
    \/ ConsLoop \/ ConsWait \/ ConsCheck \/ ConsCopy \/ ConsPost \/ ConsSample
    \/ NetPhaseInit \/ NetSpawnServer \/ NetSpawnClient \/ NetSetStop
    \/ NetJoinClient \/ NetJoinServer \/ NetCompute
    \/ SrvSetup \/ SrvReady \/ SrvLoop \/ SrvAccept \/ SrvEcho \/ SrvRecvfrom
    \/ SrvClose
    \/ CliWaitReady \/ CliLoop \/ CliSocketTcp \/ CliConnect \/ CliSend \/ CliRecv
    \/ CliCloseTcp \/ CliSocketUdp \/ CliSendto \/ CliCloseUdp
    \/ WSpawn \/ WSetStop \/ WJoin \/ WRead \/ WRunAgain
    \/ \E i \in Workers : WStart(i) \/ WLoop(i) \/ WWork(i) \/ WAdd(i)
    \/ StartMonitoring \/ StopMonitoring \/ StopJoin \/ Reset
    \/ CollectCurrentMetrics \/ Destroy \/ DestroyJoin
    \/ MonBaseline \/ MonLoop \/ MonSleep \/ MonCheck \/ MonCollect
    \/ MonCollectFail
    \/ GetCPUUsagePerCore \/ CpuReset
    \/ RdTick \/ GetAverageMetrics \/ GetPeakMetrics \/ AnalyzeInterference
    \/ AdEnter \/ AdTimedRun \/ AdCheck \/ AdWhile \/ AdFinish
    \/ AddSample \/ LsClear \/ GetPercentile
    \/ PfStart \/ PfStop \/ PfDestroy
    \/ DestroySharedMemory
    \/ SuRunModule \/ SuLoopEnds
    \/ BfSetStop
    \/ \E t \in BfAllThreads : BfLoop(t) \/ BfLock(t) \/ BfGuarded(t) \/ BfUnlock(t)
    \/ OcStartMonitoring \/ OcPhase \/ OcPhaseThrows \/ OcStopMonitoring
    \/ OcJoin \/ OcRead \/ OcSampler
    \/ CompareMetric \/ GetOverallHealth
    \/ ApCollect \/ GetAverageActiveProcesses
    \/ CtSpawn \/ CtSetStop \/ CtJoin \/ CtFree
    \/ \E t \in CtThreads : CtLoop(t) \/ CtWrite(t) \/ CtAdd(t)

Spec == Init /\ [][Next]_vars

\* every thread and process that can take a step eventually takes one
FairSpec ==
    /\ Spec
    /\ WF_vars(IpcParent)
    /\ WF_vars(Producer)
    /\ WF_vars(Consumer)
    /\ WF_vars(NetMain)
    /\ WF_vars(NetServer)
    /\ WF_vars(NetClient)
    /\ WF_vars(WMain)
    /\ \A i \in Workers : WF_vars(WThread(i))
    /\ WF_vars(StopJoin \/ DestroyJoin)
    /\ WF_vars(MonSampler)
    /\ WF_vars(AdThread)

====
